---- MODULE Spec2Model ----
(***************************************************************************)
(* Day 17 constrained-turn shortest path search (City::min_heat and        *)
(* PathSearch::find_path) over the aoc grid / direction utilities.          *)
(*                                                                         *)
(* Positions are pairs <<x, y>> (GridPos(isize, isize)), x to the right,   *)
(* y downwards.  An Option<T> is a sequence of length 0 (None) or 1        *)
(* (Some).  A HashMap is a function whose DOMAIN is its key set.           *)
(***************************************************************************)
EXTENDS Integers, Sequences, FiniteSets, TLC

(* ------------------------------ bounds --------------------------------- *)
\* largest number of cells (width * height) of a city searched between
\* arbitrary start and target cells
MaxFreeCells == 4
\* cities of more cells, up to MaxFreeCells + MaxMoreCells, are searched as
\* min_heat does: from the top-left to the bottom-right cell
MaxMoreCells == 2
\* largest heat loss of a cell drawn by Init
MaxCost == 1
\* largest max_before_turn drawn by Init
MaxRunLimit == 3
\* largest side of the all-ones cities drawn by InitUniform
MaxUniformDim == 3

(* ------------------------- aoc::direction, aoc::grid ------------------- *)
Dir == {"North", "South", "West", "East"}

\* GridPos::from with the y axis pointing up
DirToPosYUp(d) ==
    CASE d = "North" -> <<0, 1>>
      [] d = "South" -> <<0, -1>>
      [] d = "West"  -> <<-1, 0>>
      [] d = "East"  -> <<1, 0>>

\* impl From<Dir> for GridPos
DirToPos(d) ==
    CASE d = "North" -> <<0, -1>>
      [] d = "South" -> <<0, 1>>
      [] d = "West"  -> <<-1, 0>>
      [] d = "East"  -> <<1, 0>>

\* Dir::opposite
Opposite(d) ==
    CASE d = "North" -> "South"
      [] d = "South" -> "North"
      [] d = "West"  -> "East"
      [] d = "East"  -> "West"

\* Dir::try_from(GridPos): Ok(d) for the four unit vectors, Err otherwise
DirTryFrom(p) ==
    IF \E d \in Dir : DirToPos(d) = p
    THEN <<CHOOSE d \in Dir : DirToPos(d) = p>>
    ELSE <<>>

\* derive_more Add / Sub on GridPos
PosAdd(p, q) == <<p[1] + q[1], p[2] + q[2]>>
PosSub(p, q) == <<p[1] - q[1], p[2] - q[2]>>

\* GridPos::neighbours: the four orthogonally adjacent positions
Neighbours(p) ==
    <<PosAdd(p, DirToPos("North")), PosAdd(p, DirToPos("South")),
      PosAdd(p, DirToPos("West")), PosAdd(p, DirToPos("East"))>>

\* GridPos::in_grid
InGrid(g, p) == p[1] >= 0 /\ p[1] < g.width /\ p[2] >= 0 /\ p[2] < g.height

\* Grid::get: None outside the grid, the cell at index y * width + x inside
GridGet(g, p) ==
    IF InGrid(g, p) THEN <<g.cells[p[2] * g.width + p[1] + 1]>> ELSE <<>>

\* Grid::new for a width x height grid whose row-major buffer is cells
MkGrid(w, h, cells) == [width |-> w, height |-> h, cells |-> cells]

GridPositions(g) == (0 .. g.width - 1) \X (0 .. g.height - 1)

(* ------------------------------ state ---------------------------------- *)
VARIABLES
    city,              \* City(Grid<usize>)
    start_pos,         \* PathSearch.start_pos
    target_pos,        \* PathSearch.target_pos
    min_before_turn,   \* argument of find_path
    max_before_turn,   \* argument of find_path
    parents,           \* PathSearch.parents
    g_scores,          \* PathSearch.g_scores
    frontier,          \* the BinaryHeap of find_path
    state,             \* Option: the node popped by the last loop iteration
    ret,               \* Option<Option<Vec<GridPos>>>: what find_path returned
    heat,              \* Option<usize>: what min_heat returned
    pc                 \* "new" | "loop" | "returned" | "done" |
                       \* "find_path_panicked" | "min_heat_panicked"

vars_day17 == <<city, start_pos, target_pos, min_before_turn, max_before_turn,
                parents, g_scores, frontier, state, ret, heat, pc>>

(* ------------------ state of the other programs ------------------------- *)
\* Each program of the repository has its own variables; while one program
\* runs, the variables of the others keep the values they are parked at.

\* a value of aoc::direction::Dir and what the direction operations make of it
VARIABLES
    dir_start,         \* the direction the operations started from
    dir_now,           \* the direction after the operations applied so far
    dir_ops,           \* the names of the operations applied, in order
    dir_offset,        \* Option<GridPos>: GridPos::from(dir_now)
    dir_back           \* Option<Result<Dir>>: Dir::try_from(dir_offset)

vars_dir == <<dir_start, dir_now, dir_ops, dir_offset, dir_back>>

DirParked ==
    /\ dir_start = "North"
    /\ dir_now = "North"
    /\ dir_ops = <<>>
    /\ dir_offset = <<>>
    /\ dir_back = <<>>

\* no search constructed
Day17Parked ==
    /\ city = [width |-> 1, height |-> 1, cells |-> <<0>>]
    /\ start_pos = <<0, 0>>
    /\ target_pos = <<0, 0>>
    /\ min_before_turn = 0
    /\ max_before_turn = 0
    /\ parents = [k \in {} |-> 0]
    /\ g_scores = [k \in {} |-> 0]
    /\ frontier = {}
    /\ state = <<>>
    /\ ret = <<>>
    /\ heat = <<>>
    /\ pc = "unset"

\* day14: the rock grid and the locals of solve_pt2
VARIABLES
    parsed,            \* the RockGrid that parse_input returned
    rocks,             \* input: the RockGrid that solve_pt2 spins in place
    history,           \* HashMap<Vec<Vec<Cell>>, usize>
    cycle,             \* the loop variable of for cycle in 0..CYCLE_COUNT
    left_over_cycles,  \* the number of spins of the second loop
    final_spins,       \* how many spins the second loop has made
    load,              \* Option<usize>: what solve_pt2 returned
    got,               \* Option: a position and what get returned for it
    pc14               \* "parked" | "parsed" | "search" | "final" | "done" |
                       \* "panicked" | "wrapped"

vars_day14 == <<parsed, rocks, history, cycle, left_over_cycles, final_spins,
                load, got, pc14>>

Day14Parked ==
    /\ parsed = [grid |-> << <<"Empty">> >>, width |-> 1, height |-> 1]
    /\ rocks = parsed
    /\ history = [k \in {} |-> 0]
    /\ cycle = 0
    /\ left_over_cycles = 0
    /\ final_spins = 0
    /\ load = <<>>
    /\ got = <<>>
    /\ pc14 = "parked"

\* day03: the character grid and calls of its index functions
VARIABLES
    text,              \* the lines of the input text
    char_grid,         \* the CharGrid parsed from text
    pos_arg,           \* Option<GridPos>: the argument of pos_to_index
    index_ret,         \* Option<usize>: what pos_to_index returned
    pos_back,          \* Option<GridPos>: index_to_pos(index_ret)
    pc03               \* "parked" | "parsed" | "assert_failed"

vars_day03 == <<text, char_grid, pos_arg, index_ret, pos_back, pc03>>

Day03Parked ==
    /\ text = << <<".">> >>
    /\ char_grid = [data |-> <<".">>, width |-> 1, height |-> 1]
    /\ pos_arg = <<>>
    /\ index_ret = <<>>
    /\ pos_back = <<>>
    /\ pc03 = "parked"

\* day12: the global cache and calls of Record::possible_arrangements
VARIABLES
    cache,             \* CACHE: HashMap<(springs, groups, in_span), usize>
    record,            \* Option<Record>: the record of the last call
    arrangements,      \* Option<usize>: what the last call returned
    record_calls       \* the number of calls made so far

vars_day12 == <<cache, record, arrangements, record_calls>>

Day12Parked ==
    /\ cache = [k \in {} |-> 0]
    /\ record = <<>>
    /\ arrangements = <<>>
    /\ record_calls = 0

\* day15: the boxes of solve_pt2
VARIABLES
    boxes,             \* Boxes: [Vec<Lens>; 256], indexed 0 .. 255
    op,                \* Option<Operation>: the operation of the last iteration
    power,             \* Option<usize>: what solve_pt2 returned
    pc15               \* "parked" | "running" | "done"

vars_day15 == <<boxes, op, power, pc15>>

\* solve_pt2 not called: no boxes yet
Day15Parked ==
    /\ boxes = <<>>
    /\ op = <<>>
    /\ power = <<>>
    /\ pc15 = "parked"

\* day05: the almanac and the locals of solve_pt2
VARIABLES
    almanac,           \* input: Almanac {initial_seeds, maps}
    location,          \* the location the find closure is called with next
    possible_seed,     \* Option<u64>: back_through_all of the last location
    lowest,            \* Option<u64>: what solve_pt2 returned
    pc05               \* "parked" | "search" | "assert_failed" | "done"

vars_day05 == <<almanac, location, possible_seed, lowest, pc05>>

Day05Parked ==
    /\ almanac = [initial_seeds |-> <<>>, maps |-> <<>>]
    /\ location = 0
    /\ possible_seed = <<>>
    /\ lowest = <<>>
    /\ pc05 = "parked"

\* day03: the locals of solve_pt2 (it reads char_grid)
VARIABLES
    part_numbers,      \* what part_numbers returned: [range, value] records
    gear_indices,      \* HashMap<usize, (usize, usize)>
    surround_calls,    \* the positions part_numbers called pos_to_index with
    gear_next,         \* the index of data the gear iterator looks at next
    gear_pos,          \* Option<GridPos>: the gear of the last iteration
    gear_calls,        \* the calls of pos_to_index for that gear: <<np, ni>>
    gear_parts,        \* the (gear_id, value) pairs found for that gear
    gear_sum,          \* the sum of the gear ratios so far
    pc03g              \* "parked" | "start" | "gears" | "done" |
                       \* "assert_failed"

vars_gears == <<part_numbers, gear_indices, surround_calls, gear_next, gear_pos,
                gear_calls, gear_parts, gear_sum, pc03g>>

GearsParked ==
    /\ part_numbers = <<>>
    /\ gear_indices = [k \in {} |-> 0]
    /\ surround_calls = {}
    /\ gear_next = 0
    /\ gear_pos = <<>>
    /\ gear_calls = <<>>
    /\ gear_parts = <<>>
    /\ gear_sum = 0
    /\ pc03g = "parked"

\* day16: the floor and the beam traced over it
VARIABLES
    floor_input,       \* input: the Floor solve_pt2 was given
    floor,             \* the Floor trace_beam is called on
    beam_start,        \* Option: the (from, direction) the trace was called with
    beam_calls,        \* the calls of trace_beam still to run, next one first
    starts_left,       \* the (from, direction) pairs solve_pt2 has yet to map
    levels,            \* the energy levels returned so far
    max_level,         \* Option<usize>: what solve_pt2 returned
    pc16               \* "parked" | "pick" | "tracing" | "traced" | "done"

vars_day16 == <<floor_input, floor, beam_start, beam_calls, starts_left, levels,
                max_level, pc16>>

Day16Parked ==
    /\ floor_input = <<>>
    /\ floor = <<>>
    /\ beam_start = <<>>
    /\ beam_calls = <<>>
    /\ starts_left = <<>>
    /\ levels = <<>>
    /\ max_level = <<>>
    /\ pc16 = "parked"

\* day12: test threads that call possible_arrangements on records of their
\* own and share CACHE (the variable cache)
VARIABLES
    frames,            \* per thread: its calls of possible_arrangements_with,
                       \* innermost first
    returned,          \* per thread: Option<usize>, what its outermost call
                       \* returned
    thread_calls,      \* the calls of possible_arrangements the threads
                       \* have made
    readers,           \* the threads that hold a read guard of CACHE
    writer             \* the threads (at most one) that hold its write guard

vars_threads == <<frames, returned, thread_calls, readers, writer>>

ThreadsParked ==
    /\ frames = <<>>
    /\ returned = <<>>
    /\ thread_calls = 0
    /\ readers = {}
    /\ writer = {}

\* day08: the network of solve_pt2
VARIABLES
    network,           \* Option<Network>: [dirs, nodes] as parse_input made it
    ghost_length,      \* Option<usize>: what ghost_path_length returned
    pc08               \* "parked" | "parsed" | "returned" | "panicked" |
                       \* "looping"

vars_day08 == <<network, ghost_length, pc08>>

Day08Parked ==
    /\ network = <<>>
    /\ ghost_length = <<>>
    /\ pc08 = "parked"

vars == <<vars_day17, vars_dir, vars_day14, vars_day03, vars_day12, vars_day15,
          vars_day05, vars_gears, vars_day16, vars_threads, vars_day08>>

\* every program but program p is parked
ParkedBut(p) ==
    /\ IF p = "day17" THEN TRUE ELSE Day17Parked
    /\ IF p = "dir" THEN TRUE ELSE DirParked
    /\ IF p = "day14" THEN TRUE ELSE Day14Parked
    /\ IF p \in {"day03", "gears"} THEN TRUE ELSE Day03Parked
    /\ IF p = "gears" THEN TRUE ELSE GearsParked
    /\ IF p = "day16" THEN TRUE ELSE Day16Parked
    /\ IF p \in {"day12", "threads"} THEN TRUE ELSE Day12Parked
    /\ IF p = "threads" THEN TRUE ELSE ThreadsParked
    /\ IF p = "day08" THEN TRUE ELSE Day08Parked
    /\ IF p = "day15" THEN TRUE ELSE Day15Parked
    /\ IF p = "day05" THEN TRUE ELSE Day05Parked

\* no program but program p takes a step
UnchangedBut(p) ==
    /\ IF p = "day17" THEN TRUE ELSE UNCHANGED vars_day17
    /\ IF p = "dir" THEN TRUE ELSE UNCHANGED vars_dir
    /\ IF p = "day14" THEN TRUE ELSE UNCHANGED vars_day14
    /\ IF p = "day03" THEN TRUE ELSE UNCHANGED vars_day03
    /\ IF p \in {"day12", "threads"} THEN TRUE ELSE UNCHANGED vars_day12
    /\ IF p = "threads" THEN TRUE ELSE UNCHANGED vars_threads
    /\ IF p = "day08" THEN TRUE ELSE UNCHANGED vars_day08
    /\ IF p = "day15" THEN TRUE ELSE UNCHANGED vars_day15
    /\ IF p = "day05" THEN TRUE ELSE UNCHANGED vars_day05
    /\ IF p = "gears" THEN TRUE ELSE UNCHANGED vars_gears
    /\ IF p = "day16" THEN TRUE ELSE UNCHANGED vars_day16

\* the identity of a SearchNode: Hash and PartialEq use pos and
\* previous_same_dirs only
MkNode(pos, dirs) == [pos |-> pos, previous_same_dirs |-> dirs]

\* a SearchNode as stored in the frontier, with its f_score
MkEntry(pos, dirs, f) == [pos |-> pos, previous_same_dirs |-> dirs, f_score |-> f]

KeyOf(e) == MkNode(e.pos, e.previous_same_dirs)

EmptyMap == [k \in {} |-> 0]

\* HashMap::insert
MapInsert(m, k, v) == (k :> v) @@ m

\* frontier.as_slice().contains(&child_state): SearchNode equality
FrontierContains(fr, node) == \E e \in fr : KeyOf(e) = node

\* Ord without the reverse(): pop returns an entry of greatest f_score
PopCandidatesGreatest(fr) ==
    UNION {{e \in fr : e.f_score = greatest} :
              greatest \in {f \in {e.f_score : e \in fr} :
                              \A e \in fr : f >= e.f_score}}

\* a heap without an order: pop returns any entry
PopCandidatesAny(fr) == fr

\* the entries BinaryHeap::pop may return: Ord is the reversed f_score
\* order, so the greatest entry is one of least f_score; which one of several
\* is left open
PopCandidates(fr) ==
    UNION {{e \in fr : e.f_score = least} :
              least \in {f \in {e.f_score : e \in fr} :
                           \A e \in fr : f <= e.f_score}}

(* --------------------- find_path: expansion ----------------------------- *)
\* what the filter_map closure yields when Dir::try_from(..).unwrap() panics
UnwrapFailed == MkNode(<<0, 0>>, <<"unwrap">>)

\* the expansion without the check on max_before_turn
ExpandChildNoMaxCheck(node, pos, minb, maxb) ==
    LET dir == DirTryFrom(PosSub(pos, node.pos))[1]
        psd == node.previous_same_dirs
        has_previous == Len(psd) > 0
        previous_dir == IF has_previous THEN psd[Len(psd)] ELSE "none"
        previous_same_dirs ==
            IF previous_dir = dir THEN Append(psd, dir) ELSE <<dir>>
    IN  IF previous_dir = Opposite(dir) THEN <<>>
        ELSE IF has_previous /\ dir # previous_dir /\ Len(psd) < minb THEN <<>>
        ELSE <<MkNode(pos, previous_same_dirs)>>

\* the expansion without the "can't go backwards" check
ExpandChildNoReverseCheck(node, pos, minb, maxb) ==
    LET dir == DirTryFrom(PosSub(pos, node.pos))[1]
        psd == node.previous_same_dirs
        has_previous == Len(psd) > 0
        previous_dir == IF has_previous THEN psd[Len(psd)] ELSE "none"
        previous_same_dirs ==
            IF previous_dir = dir THEN Append(psd, dir) ELSE <<dir>>
    IN  IF has_previous /\ dir # previous_dir /\ Len(psd) < minb THEN <<>>
        ELSE IF Len(previous_same_dirs) = maxb + 1 THEN <<>>
        ELSE <<MkNode(pos, previous_same_dirs)>>

\* the expansion that appends the direction to the run after a turn too
ExpandChildKeepsRun(node, pos, minb, maxb) ==
    LET dir == DirTryFrom(PosSub(pos, node.pos))[1]
        psd == node.previous_same_dirs
        has_previous == Len(psd) > 0
        previous_dir == IF has_previous THEN psd[Len(psd)] ELSE "none"
        previous_same_dirs == Append(psd, dir)
    IN  IF previous_dir = Opposite(dir) THEN <<>>
        ELSE IF has_previous /\ dir # previous_dir /\ Len(psd) < minb THEN <<>>
        ELSE IF Len(previous_same_dirs) = maxb + 1 THEN <<>>
        ELSE <<MkNode(pos, previous_same_dirs)>>

\* the filter_map closure: Some(child) when the step from node to pos is
\* allowed, None otherwise
ExpandChild(node, pos, minb, maxb) ==
    LET dirOpt == DirTryFrom(PosSub(pos, node.pos))
        psd    == node.previous_same_dirs
    IN  IF dirOpt = <<>> THEN <<UnwrapFailed>>
        ELSE
        LET dir == dirOpt[1]
            \* previous_dir == state.previous_same_dirs.last()
            has_previous == Len(psd) > 0
            previous_dir == IF has_previous THEN psd[Len(psd)] ELSE "none"
            previous_same_dirs ==
                IF previous_dir = dir THEN Append(psd, dir) ELSE <<dir>>
        IN  IF previous_dir = Opposite(dir) THEN <<>>
            ELSE IF has_previous /\ dir # previous_dir /\ Len(psd) < minb THEN <<>>
            ELSE IF Len(previous_same_dirs) = maxb + 1 THEN <<>>
            ELSE <<MkNode(pos, previous_same_dirs)>>

RECURSIVE ExpandSeq(_, _, _, _, _)
\* neighbours().filter(in_grid).filter_map(..) over the positions ps
ExpandSeq(g, node, ps, minb, maxb) ==
    IF ps = <<>> THEN <<>>
    ELSE CHOOSE cs \in {(IF InGrid(g, Head(ps))
                         THEN ExpandChild(node, Head(ps), minb, maxb)
                         ELSE <<>>) \o ExpandSeq(g, node, rest, minb, maxb) :
                           rest \in {Tail(ps)}} : TRUE

RECURSIVE ExpandSeqUnfiltered(_, _, _, _, _)
ExpandSeqUnfiltered(g, node, ps, minb, maxb) ==
    IF ps = <<>> THEN <<>>
    ELSE ExpandChild(node, Head(ps), minb, maxb)
             \o ExpandSeqUnfiltered(g, node, Tail(ps), minb, maxb)

\* the expansion without the in_grid filter
ExpandUnfiltered(g, node, minb, maxb) ==
    ExpandSeqUnfiltered(g, node, Neighbours(node.pos), minb, maxb)

\* the child states of node, in iteration order
Expand(g, node, minb, maxb) ==
    CHOOSE cs \in {ExpandSeq(g, node, ps, minb, maxb) : ps \in {Neighbours(node.pos)}} : TRUE

(* --------------------- find_path: relaxation ---------------------------- *)
\* In the relaxation S is the search (parents, g_scores), the frontier and
\* a flag that tells whether an unwrap has panicked.

\* the relaxation with the frontier test inverted: a child is pushed only
\* when the frontier already holds it
RelaxChildInvertedContains(g, S, node, child) ==
    LET tentative_g == S.g_scores[node] + GridGet(g, child.pos)[1]
        improves    == IF child \in DOMAIN S.g_scores
                       THEN tentative_g < S.g_scores[child]
                       ELSE TRUE
    IN  IF improves
        THEN [parents  |-> MapInsert(S.parents, child, node),
              g_scores |-> MapInsert(S.g_scores, child, tentative_g),
              frontier |-> IF ~FrontierContains(S.frontier, child)
                           THEN S.frontier
                           ELSE S.frontier \cup
                                {MkEntry(child.pos, child.previous_same_dirs, tentative_g)},
              panic    |-> S.panic]
        ELSE S

\* the relaxation with <= for <: a child reached again at its recorded cost
\* is recorded and pushed again
RelaxChildOrEqual(g, S, node, child) ==
    LET tentative_g == S.g_scores[node] + GridGet(g, child.pos)[1]
        improves    == IF child \in DOMAIN S.g_scores
                       THEN tentative_g <= S.g_scores[child]
                       ELSE TRUE
    IN  IF improves
        THEN [parents  |-> MapInsert(S.parents, child, node),
              g_scores |-> MapInsert(S.g_scores, child, tentative_g),
              frontier |-> IF FrontierContains(S.frontier, child)
                           THEN S.frontier
                           ELSE S.frontier \cup
                                {MkEntry(child.pos, child.previous_same_dirs, tentative_g)},
              panic    |-> S.panic]
        ELSE S

\* the relaxation that pushes the child with the g-score of its parent as
\* f_score
RelaxChildParentScore(g, S, node, child) ==
    LET tentative_g == S.g_scores[node] + GridGet(g, child.pos)[1]
        improves    == IF child \in DOMAIN S.g_scores
                       THEN tentative_g < S.g_scores[child]
                       ELSE TRUE
    IN  IF improves
        THEN [parents  |-> MapInsert(S.parents, child, node),
              g_scores |-> MapInsert(S.g_scores, child, tentative_g),
              frontier |-> IF FrontierContains(S.frontier, child)
                           THEN S.frontier
                           ELSE S.frontier \cup
                                {MkEntry(child.pos, child.previous_same_dirs,
                                         S.g_scores[node])},
              panic    |-> S.panic]
        ELSE S

\* the relaxation without the comparison of costs: every child reached is
\* recorded again
RelaxChildAlwaysRecords(g, S, node, child) ==
    LET tentative_g == S.g_scores[node] + GridGet(g, child.pos)[1]
    IN  [parents  |-> MapInsert(S.parents, child, node),
         g_scores |-> MapInsert(S.g_scores, child, tentative_g),
         frontier |-> IF FrontierContains(S.frontier, child)
                      THEN S.frontier
                      ELSE S.frontier \cup
                           {MkEntry(child.pos, child.previous_same_dirs, tentative_g)},
         panic    |-> S.panic]

\* the relaxation that leaves the cost of the child's cell out of its g-score
RelaxChildNoEdgeCost(g, S, node, child) ==
    LET tentative_g == S.g_scores[node]
        improves    == IF child \in DOMAIN S.g_scores
                       THEN tentative_g < S.g_scores[child]
                       ELSE TRUE
    IN  IF improves
        THEN [parents  |-> MapInsert(S.parents, child, node),
              g_scores |-> MapInsert(S.g_scores, child, tentative_g),
              frontier |-> IF FrontierContains(S.frontier, child)
                           THEN S.frontier
                           ELSE S.frontier \cup
                                {MkEntry(child.pos, child.previous_same_dirs, tentative_g)},
              panic    |-> S.panic]
        ELSE S

\* the for_each closure applied to one child_state: the unwraps, then the
\* update of parents and g_scores and the push when the child is new or
\* strictly cheaper
RelaxChild(g, S, node, child) ==
    IF child = UnwrapFailed \/ node \notin DOMAIN S.g_scores \/ GridGet(g, child.pos) = <<>>
    THEN [S EXCEPT !.panic = TRUE]
    ELSE
    LET state_g     == S.g_scores[node]
        edge_cost   == GridGet(g, child.pos)[1]
        tentative_g == state_g + edge_cost
        improves    == IF child \in DOMAIN S.g_scores
                       THEN tentative_g < S.g_scores[child]
                       ELSE TRUE
    IN  IF improves
        THEN [parents  |-> MapInsert(S.parents, child, node),
              g_scores |-> MapInsert(S.g_scores, child, tentative_g),
              frontier |-> IF FrontierContains(S.frontier, child)
                           THEN S.frontier
                           ELSE S.frontier \cup
                                {MkEntry(child.pos, child.previous_same_dirs, tentative_g + 0)},
              panic    |-> S.panic]
        ELSE S

RECURSIVE RelaxAll(_, _, _, _)
\* for_each over the children in order; a panic ends it.  (The search after
\* each child is bound as a value, so that it is computed once.)
RelaxAll(g, S, node, children) ==
    IF children = <<>> \/ S.panic THEN S
    ELSE CHOOSE R \in {RelaxAll(g, S1, node, rest) :
                          S1 \in {RelaxChild(g, S, node, Head(children))},
                          rest \in {Tail(children)}} : TRUE

(* --------------------- path reconstruction ------------------------------ *)
RECURSIVE BacktrackFrom(_, _, _)
\* SearchNode::backtrack: the positions from node back along parents; fuel
\* bounds the walk so that a cycle of parents shows as a path longer than
\* the number of recorded states
BacktrackFrom(par, node, fuel) ==
    IF node \in DOMAIN par /\ fuel > 0
    THEN <<node.pos>> \o BacktrackFrom(par, par[node], fuel - 1)
    ELSE <<node.pos>>

Backtrack(par, node) == BacktrackFrom(par, node, Cardinality(DOMAIN par) + 1)

RECURSIVE SumHeat(_, _)
\* path.into_iter().map(|p| get(p).unwrap()).sum()
SumHeat(g, path) ==
    IF path = <<>> THEN 0 ELSE GridGet(g, Head(path))[1] + SumHeat(g, Tail(path))

\* min_heat without path.pop(): the start position stays in the path
PopNothing(v) == v

\* Vec::pop: drop the last element (of a non-empty vector)
PopLast(v) == IF v = <<>> THEN v ELSE SubSeq(v, 1, Len(v) - 1)

(* ------------------------------ actions --------------------------------- *)
Unchanged_input ==
    /\ UNCHANGED <<city, start_pos, target_pos, min_before_turn, max_before_turn>>
    /\ UnchangedBut("day17")

\* find_path up to the loop: record the start state with g-score 0,
\* push it with f_score 0
FindPathStart ==
    /\ pc = "new"
    /\ g_scores' = MapInsert(g_scores, MkNode(start_pos, <<>>), 0)
    /\ frontier' = frontier \cup {MkEntry(start_pos, <<>>, 0)}
    /\ pc' = "loop"
    /\ UNCHANGED <<parents, state, ret, heat>>
    /\ Unchanged_input

\* the goal test with >= for >
IsGoalAtLeast(e, target, minb) == e.pos = target /\ Len(e.previous_same_dirs) >= minb

\* the goal test of the loop
\* state.pos == target_pos && state.previous_same_dirs.len() > min_before_turn
IsGoal(e, target, minb) == e.pos = target /\ Len(e.previous_same_dirs) > minb

\* one loop iteration that pops entry e and returns Some(backtrack)
LoopAccept(e) ==
    /\ pc = "loop"
    /\ e \in frontier
    /\ IsGoal(e, target_pos, min_before_turn)
    /\ frontier' = frontier \ {e}
    /\ state' = <<e>>
    /\ ret' = << <<Backtrack(parents, KeyOf(e))>> >>
    /\ pc' = "returned"
    /\ UNCHANGED <<parents, g_scores, heat>>
    /\ Unchanged_input

\* one loop iteration that pops entry e, expands it and relaxes its children
LoopExpand(e) ==
    /\ pc = "loop"
    /\ e \in frontier
    /\ ~IsGoal(e, target_pos, min_before_turn)
    /\ \E S0 \in {[parents |-> parents, g_scores |-> g_scores,
                    frontier |-> frontier \ {e}, panic |-> FALSE]} :
       \E children \in {Expand(city, KeyOf(e), min_before_turn, max_before_turn)} :
       \E S1 \in {RelaxAll(city, S0, KeyOf(e), children)} :
           /\ parents' = S1.parents
           /\ g_scores' = S1.g_scores
           /\ frontier' = S1.frontier
           /\ pc' = IF S1.panic THEN "find_path_panicked" ELSE "loop"
    /\ state' = <<e>>
    /\ UNCHANGED <<ret, heat>>
    /\ Unchanged_input

\* the loop ends on an empty frontier: find_path returns None
LoopEmpty ==
    /\ pc = "loop"
    /\ frontier = {}
    /\ ret' = << <<>> >>
    /\ pc' = "returned"
    /\ UNCHANGED <<parents, g_scores, frontier, state, heat>>
    /\ Unchanged_input

\* min_heat searches from (0, 0) to (width - 1, height - 1)
IsMinHeatCall ==
    /\ start_pos = <<0, 0>>
    /\ target_pos = <<city.width - 1, city.height - 1>>

\* min_heat after find_path returned Some(path): pop the start, sum the rest
MinHeatSum ==
    /\ pc = "returned"
    /\ IsMinHeatCall
    /\ ret[1] # <<>>
    /\ heat' = <<SumHeat(city, PopLast(ret[1][1]))>>
    /\ pc' = "done"
    /\ UNCHANGED <<parents, g_scores, frontier, state, ret>>
    /\ Unchanged_input

\* min_heat after find_path returned None: Option::unwrap panics
MinHeatUnwrapNone ==
    /\ pc = "returned"
    /\ IsMinHeatCall
    /\ ret[1] = <<>>
    /\ pc' = "min_heat_panicked"
    /\ UNCHANGED <<parents, g_scores, frontier, state, ret, heat>>
    /\ Unchanged_input

(* ------------------------------ Init ------------------------------------ *)
\* PathSearch::new: both maps empty; nothing popped or returned yet
InitSearch ==
    /\ parents = EmptyMap
    /\ g_scores = EmptyMap
    /\ frontier = {}
    /\ state = <<>>
    /\ ret = <<>>
    /\ heat = <<>>
    /\ pc = "new"

Shapes(n) == {wh \in (1 .. n) \X (1 .. n) : wh[1] * wh[2] <= n}

Cities(n) ==
    UNION {{MkGrid(wh[1], wh[2], cells) :
                cells \in [1 .. wh[1] * wh[2] -> 0 .. MaxCost]} : wh \in Shapes(n)}

Init ==
    /\ city \in Cities(MaxFreeCells + MaxMoreCells)
    /\ start_pos \in GridPositions(city)
    /\ target_pos \in GridPositions(city)
    /\ city.width * city.height > MaxFreeCells => IsMinHeatCall
    /\ max_before_turn \in 0 .. MaxRunLimit
    /\ min_before_turn \in 0 .. max_before_turn
    /\ InitSearch
    /\ ParkedBut("day17")

Next ==
    \/ FindPathStart
    \/ \E e \in PopCandidates(frontier) : LoopAccept(e)
    \/ \E e \in PopCandidates(frontier) : LoopExpand(e)
    \/ LoopEmpty
    \/ MinHeatSum
    \/ MinHeatUnwrapNone

Spec == Init /\ [][Next]_vars

(* ------------------- walks that obey the transition rules --------------- *)
\* A walk state is <<pos, d, n>>: the walker stands on pos after n >= 1
\* consecutive steps in direction d; <<start, "none", 0>> before any step.
\* A step in direction d is allowed from <<pos, d, n>> when n < maxb, from
\* <<pos, e, n>> with e neither d nor its opposite when n >= minb, and
\* from the start state.
WalkStates(g, start, maxb) ==
    {<<start, "none", 0>>} \cup (GridPositions(g) \X Dir \X (1 .. maxb))

\* the walk states from which one allowed step leads to s
WalkPreds(g, start, minb, maxb, s) ==
    LET from == PosSub(s[1], DirToPos(s[2]))
    IN  IF s[3] = 0 \/ ~InGrid(g, from) THEN {}
        ELSE IF s[3] >= 2 THEN {<<from, s[2], s[3] - 1>>}
        ELSE {<<from, d, n>> : d \in Dir \ {s[2], Opposite(s[2])},
                               n \in (IF minb > 1 THEN minb ELSE 1) .. maxb}
             \cup (IF from = start THEN {<<start, "none", 0>>} ELSE {})

SetMin(S) == CHOOSE m \in S : \A o \in S : m <= o

RECURSIVE WalkCosts(_, _, _, _, _, _)
\* the least cost of a walk from the start to each walk state that a walk
\* reaches: dist maps the states reached so far to the least cost found so
\* far; every state is relaxed until nothing changes
WalkCosts(g, start, minb, maxb, dist, rounds) ==
    LET reached(s) == WalkPreds(g, start, minb, maxb, s) \cap DOMAIN dist
        next == [s \in DOMAIN dist \cup
                       {q \in WalkStates(g, start, maxb) : reached(q) # {}} |->
                   SetMin((IF s \in DOMAIN dist THEN {dist[s]} ELSE {}) \cup
                          {dist[p] + GridGet(g, s[1])[1] : p \in reached(s)})]
    IN  IF next = dist \/ rounds = 0 THEN next
        ELSE CHOOSE r \in {WalkCosts(g, start, minb, maxb, d, rounds - 1) :
                              d \in {next}} : TRUE

LeastWalkCosts(g, start, minb, maxb) ==
    WalkCosts(g, start, minb, maxb, (<<start, "none", 0>> :> 0),
              Cardinality(WalkStates(g, start, maxb)))

\* Some(the least cost of a walk that ends on target with a final run longer
\* than minb), None when no such walk exists
LeastGoalCost(g, start, target, minb, maxb) ==
    LET dist  == LeastWalkCosts(g, start, minb, maxb)
        goals == {s \in DOMAIN dist : s[1] = target /\ s[3] > minb}
    IN  IF goals = {} THEN <<>> ELSE <<SetMin({dist[s] : s \in goals})>>

FoundPath == pc \in {"returned", "done"} /\ ret[1] # <<>>

\* C1: whenever find_path returns a path, the heat summed over it (start
\* cell excluded, goal cell included) is the least cost of any walk from
\* start to target that obeys the transition rules and ends with a final
\* run longer than min_before_turn; min_heat returns that sum.
C1_MinHeatIsLeast ==
    FoundPath =>
        /\ <<SumHeat(city, PopLast(ret[1][1]))>>
             = LeastGoalCost(city, start_pos, target_pos, min_before_turn, max_before_turn)
        /\ pc = "done" =>
              heat = LeastGoalCost(city, start_pos, target_pos,
                                   min_before_turn, max_before_turn)

\* min_heat returned the cost, at least 2, of a path of at least three steps
\* through a city that also has cells of cost 0, under a minimum run
C1_Witness ==
    /\ pc = "done"
    /\ Len(ret[1][1]) >= 4
    /\ heat[1] >= 2
    /\ min_before_turn >= 1
    /\ \E i \in DOMAIN city.cells : city.cells[i] = 0

(* ------------------- the steps of a returned path ----------------------- *)
\* backtrack lists the positions from the goal back to the start; the steps
\* of the path in walking order are the differences of consecutive positions
StepsOf(path) ==
    [i \in 1 .. Len(path) - 1 |->
        PosSub(path[Len(path) - i], path[Len(path) - i + 1])]

UnitVectors == {DirToPos(d) : d \in Dir}

RECURSIVE RunEndingAt(_, _)
\* the number of equal consecutive steps that end with step i
RunEndingAt(steps, i) ==
    IF i > 1 /\ steps[i - 1] = steps[i] THEN 1 + RunEndingAt(steps, i - 1) ELSE 1

ReturnedSteps == StepsOf(ret[1][1])

\* C2: in a returned path no straight run is longer than max_before_turn
\* and every change of direction comes after a straight run of at least
\* min_before_turn steps.
C2_RunsWithinBounds ==
    FoundPath =>
        \A i \in DOMAIN ReturnedSteps :
            /\ RunEndingAt(ReturnedSteps, i) <= max_before_turn
            /\ (i < Len(ReturnedSteps) /\ ReturnedSteps[i + 1] # ReturnedSteps[i])
                  => RunEndingAt(ReturnedSteps, i) >= min_before_turn

\* a returned path that turns, with a minimum run of at least 1, and holds a
\* run of exactly max_before_turn steps
C2_Witness ==
    /\ FoundPath
    /\ min_before_turn >= 1
    /\ \E i \in 1 .. Len(ReturnedSteps) - 1 : ReturnedSteps[i + 1] # ReturnedSteps[i]
    /\ \E i \in DOMAIN ReturnedSteps : RunEndingAt(ReturnedSteps, i) = max_before_turn

\* C3: consecutive positions of a returned path are one orthogonal grid step
\* apart and no step is the opposite of the step before it.
C3_UnitStepsNoReversal ==
    FoundPath =>
        /\ \A i \in DOMAIN ReturnedSteps : ReturnedSteps[i] \in UnitVectors
        /\ \A i \in 1 .. Len(ReturnedSteps) - 1 :
              PosAdd(ReturnedSteps[i], ReturnedSteps[i + 1]) # <<0, 0>>

\* a returned path that leaves the start and comes back to it: the shortest
\* way back would be a reversal
C3_Witness == FoundPath /\ start_pos = target_pos /\ Len(ReturnedSteps) >= 4

\* C4: find_path returns a path only for a popped state on the target whose
\* run is longer than min_before_turn; a popped state on the target whose run
\* is not longer is expanded (its children are recorded) and not returned.
C4_GoalTest ==
    /\ FoundPath =>
          /\ state[1].pos = target_pos
          /\ Len(state[1].previous_same_dirs) > min_before_turn
          /\ ret[1][1][1] = state[1].pos
    /\ (/\ state # <<>>
        /\ state[1].pos = target_pos
        /\ Len(state[1].previous_same_dirs) <= min_before_turn)
          => /\ ~FoundPath
             /\ \A i \in DOMAIN Expand(city, KeyOf(state[1]), min_before_turn, max_before_turn) :
                   Expand(city, KeyOf(state[1]), min_before_turn, max_before_turn)[i]
                       \in DOMAIN g_scores

\* a state on the target with a run of exactly min_before_turn >= 1 steps was
\* popped and the search goes on
C4_Witness ==
    /\ pc = "loop"
    /\ state # <<>>
    /\ state[1].pos = target_pos
    /\ min_before_turn >= 1
    /\ Len(state[1].previous_same_dirs) = min_before_turn

\* C5: for min_before_turn >= 1, a popped state on the target whose run is
\* long enough to turn (at least min_before_turn) is accepted.
C5_GoalTestMirrorsTurnRule ==
    (/\ min_before_turn >= 1
     /\ state # <<>>
     /\ state[1].pos = target_pos
     /\ Len(state[1].previous_same_dirs) >= min_before_turn)
        => FoundPath

\* C6: find_path returns None exactly when no walk state on the target with
\* a run longer than min_before_turn is reachable, and never panics.
C6_NoneIffUnreachable ==
    /\ pc # "find_path_panicked"
    /\ ret # <<>> =>
          (ret[1] = <<>>
             <=> LeastGoalCost(city, start_pos, target_pos,
                               min_before_turn, max_before_turn) = <<>>)

\* find_path returned None although the target is another cell of the city
\* and steps are allowed: only the run limits keep the walker from stopping
C6_Witness ==
    /\ ret = << <<>> >>
    /\ start_pos # target_pos
    /\ max_before_turn >= 2
    /\ Cardinality(DOMAIN g_scores) >= 4

\* C7: find_path terminates: it returns (or panics) in every run.
C7_FindPathTerminates == <>(pc \notin {"unset", "new", "loop"})

\* a search over a city with a cell of cost 0 that came back to the start
\* position has returned
C7_Witness ==
    /\ ret # <<>>
    /\ \E i \in DOMAIN city.cells : city.cells[i] = 0
    /\ \E n \in DOMAIN g_scores : n.pos = start_pos /\ n.previous_same_dirs # <<>>

\* C8: min_heat does not panic when find_path returns None.
C8_NoneIsHandled == pc # "min_heat_panicked"

\* City::parse and PathSearch::new as a step: a search between two cells of
\* a city of at most MaxFreeCells cells is constructed
Construct ==
    /\ pc = "unset"
    /\ city' \in Cities(MaxFreeCells)
    /\ start_pos' \in GridPositions(city')
    /\ target_pos' \in GridPositions(city')
    /\ max_before_turn' \in 0 .. MaxRunLimit
    /\ min_before_turn' \in 0 .. max_before_turn'
    /\ pc' = "new"
    /\ UNCHANGED <<parents, g_scores, frontier, state, ret, heat>>
    /\ UnchangedBut("day17")

InitUnset == Day17Parked /\ ParkedBut("day17")

NextFair == Construct \/ Next

\* the program runs on without outside interference: a step that can be
\* taken is taken
FairSpec == InitUnset /\ [][NextFair]_vars /\ WF_vars(NextFair)

(* ------------------- cities whose cells all cost 1 ---------------------- *)
Larger(a, b) == IF a >= b THEN a ELSE b

Abs(a) == IF a >= 0 THEN a ELSE -a

Manhattan(p, q) == Abs(p[1] - q[1]) + Abs(p[2] - q[2])

\* a city of cost-1 cells, no minimum run, and a maximum run at least as
\* large as both sides of the city
InitUniform ==
    /\ \E w \in 1 .. MaxUniformDim, h \in 1 .. MaxUniformDim :
          /\ city = MkGrid(w, h, [i \in 1 .. w * h |-> 1])
          /\ max_before_turn \in Larger(w, h) .. MaxUniformDim
    /\ start_pos \in GridPositions(city)
    /\ target_pos \in GridPositions(city)
    /\ min_before_turn = 0
    /\ InitSearch
    /\ ParkedBut("day17")

SpecUniform == InitUniform /\ [][Next]_vars

\* C9: on a city of cost-1 cells with min_before_turn = 0 and
\* max_before_turn at least both sides, find_path returns, for every start
\* and target cell, a path with as many steps as the Manhattan distance
\* between them (and min_heat that number as the cost).
C9_StepsAreManhattan ==
    /\ ret # <<>> =>
          /\ ret[1] # <<>>
          /\ Len(ret[1][1]) - 1 = Manhattan(start_pos, target_pos)
    /\ pc = "done" => heat = <<Manhattan(start_pos, target_pos)>>

\* the same for distinct start and target cells only
C9_StepsAreManhattanWhenApart ==
    (ret # <<>> /\ start_pos # target_pos) =>
          /\ ret[1] # <<>>
          /\ Len(ret[1][1]) - 1 = Manhattan(start_pos, target_pos)

(* ------------------- the sample city of day 17 -------------------------- *)
\* sample.txt: the 13 x 13 city of the puzzle text, row by row
SampleCity ==
    MkGrid(13, 13,
     <<2, 4, 1, 3, 4, 3, 2, 3, 1, 1, 3, 2, 3,
       3, 2, 1, 5, 4, 5, 3, 5, 3, 5, 6, 2, 3,
       3, 2, 5, 5, 2, 4, 5, 6, 5, 4, 2, 5, 4,
       3, 4, 4, 6, 5, 8, 5, 8, 4, 5, 4, 5, 2,
       4, 5, 4, 6, 6, 5, 7, 8, 6, 7, 5, 3, 6,
       1, 4, 3, 8, 5, 9, 8, 7, 9, 8, 4, 5, 4,
       4, 4, 5, 7, 8, 7, 6, 9, 8, 7, 7, 6, 6,
       3, 6, 3, 7, 8, 7, 7, 9, 7, 9, 6, 5, 3,
       4, 6, 5, 4, 9, 6, 7, 9, 8, 6, 8, 8, 7,
       4, 5, 6, 4, 6, 7, 9, 9, 8, 6, 4, 5, 3,
       1, 2, 2, 4, 6, 8, 6, 8, 6, 5, 5, 6, 3,
       2, 5, 4, 6, 5, 4, 8, 8, 8, 7, 7, 3, 5,
       4, 3, 2, 2, 6, 7, 4, 6, 5, 5, 5, 3, 3>>)

\* min_heat on the sample city: solve_pt1 calls min_heat(0, 3), solve_pt2
\* calls min_heat(4, 10); (3, 10) are the bounds of the ultra variant as the
\* specification words them, (0, 0) allows no step at all
SampleRuns == {<<0, 3>>, <<4, 10>>, <<3, 10>>, <<0, 0>>}

InitSample ==
    /\ city = SampleCity
    /\ start_pos = <<0, 0>>
    /\ target_pos = <<city.width - 1, city.height - 1>>
    /\ \E r \in SampleRuns : min_before_turn = r[1] /\ max_before_turn = r[2]
    /\ InitSearch
    /\ ParkedBut("day17")

\* BinaryHeap::pop with the order among entries of equal f_score fixed
PopFixed(fr) == CHOOSE e \in PopCandidates(fr) : TRUE

NextSample ==
    \/ FindPathStart
    \/ frontier # {} /\ \E e \in {PopFixed(frontier)} : LoopAccept(e)
    \/ frontier # {} /\ \E e \in {PopFixed(frontier)} : LoopExpand(e)
    \/ LoopEmpty
    \/ MinHeatSum
    \/ MinHeatUnwrapNone

SpecSample == InitSample /\ [][NextSample]_vars

\* C10 as stated: on the sample city min_heat(0, 3) returns 102 and
\* min_heat(3, 10) returns 94.
C10_SampleHeatAsStated ==
    pc = "done" =>
        /\ (min_before_turn = 0 /\ max_before_turn = 3) => heat = <<102>>
        /\ (min_before_turn = 3 /\ max_before_turn = 10) => heat = <<94>>

\* C10 amended: on the sample city min_heat(0, 3) returns 102 and
\* min_heat(4, 10), the call of solve_pt2, returns 94; neither search panics.
C10_SampleHeat ==
    /\ pc = "done" =>
        /\ (min_before_turn = 0 /\ max_before_turn = 3) => heat = <<102>>
        /\ (min_before_turn = 4 /\ max_before_turn = 10) => heat = <<94>>
    /\ pc \in {"find_path_panicked", "min_heat_panicked"} => max_before_turn = 0

\* min_heat(4, 10) returned 94 for the sample city
C10_Witness ==
    /\ pc = "done"
    /\ min_before_turn = 4
    /\ max_before_turn = 10
    /\ heat = <<94>>

(* ------------------- aoc::direction: the operations on Dir -------------- *)
\* largest number of turn_left / turn_right / opposite calls in a row
MaxDirOps == 4

\* turn_left that turns the wrong way from West
TurnLeftStuck(d) ==
    CASE d = "North" -> "West"
      [] d = "West"  -> "North"
      [] d = "South" -> "East"
      [] d = "East"  -> "North"

\* Dir::turn_left: North -> West -> South -> East -> North
TurnLeft(d) ==
    CASE d = "North" -> "West"
      [] d = "West"  -> "South"
      [] d = "South" -> "East"
      [] d = "East"  -> "North"

\* Dir::turn_right: North -> East -> South -> West -> North
TurnRight(d) ==
    CASE d = "North" -> "East"
      [] d = "East"  -> "South"
      [] d = "South" -> "West"
      [] d = "West"  -> "North"

\* one call of f on the current direction, f one of turn_left, turn_right,
\* opposite
DirApply(name, next_dir) ==
    /\ Len(dir_ops) < MaxDirOps
    /\ dir_offset = <<>>
    /\ dir_now' = next_dir
    /\ dir_ops' = Append(dir_ops, name)
    /\ UNCHANGED <<dir_start, dir_offset, dir_back>>
    /\ UnchangedBut("dir")

DirTurnLeft == DirApply("turn_left", TurnLeft(dir_now))

DirTurnRight == DirApply("turn_right", TurnRight(dir_now))

DirOpposite == DirApply("opposite", Opposite(dir_now))

\* let offset: GridPos = dir.into()
DirInto ==
    /\ dir_offset = <<>>
    /\ dir_offset' = <<DirToPos(dir_now)>>
    /\ UNCHANGED <<dir_start, dir_now, dir_ops, dir_back>>
    /\ UnchangedBut("dir")

\* Dir::try_from(offset)
DirBack ==
    /\ dir_offset # <<>>
    /\ dir_back = <<>>
    /\ dir_back' = <<DirTryFrom(dir_offset[1])>>
    /\ UNCHANGED <<dir_start, dir_now, dir_ops, dir_offset>>
    /\ UnchangedBut("dir")

InitDir ==
    /\ dir_start \in Dir
    /\ dir_now = dir_start
    /\ dir_ops = <<>>
    /\ dir_offset = <<>>
    /\ dir_back = <<>>
    /\ ParkedBut("dir")

NextDir == DirTurnLeft \/ DirTurnRight \/ DirOpposite \/ DirInto \/ DirBack

SpecDir == InitDir /\ [][NextDir]_vars

\* the unit step of each direction, y growing downwards
UnitStepOf(d) ==
    IF d = "North" THEN <<0, -1>>
    ELSE IF d = "South" THEN <<0, 1>>
    ELSE IF d = "West" THEN <<-1, 0>>
    ELSE <<1, 0>>

\* the positions one step along one axis from the origin
UnitSteps == {p \in (-1 .. 1) \X (-1 .. 1) : Abs(p[1]) + Abs(p[2]) = 1}

\* C11: GridPos::from(d) is North=(0,-1), South=(0,1), West=(-1,0),
\* East=(1,0); different directions give different offsets; the offsets are
\* exactly the four unit vectors; Dir::try_from of the offset is the
\* direction again; the offset of opposite(d) is the negated offset of d.
C11_DirOffsets ==
    /\ dir_offset # <<>> =>
          /\ dir_offset[1] = UnitStepOf(dir_now)
          /\ dir_offset[1] \in UnitSteps
          /\ dir_now # dir_start => dir_offset[1] # DirToPos(dir_start)
          /\ DirToPos(Opposite(dir_now)) = PosSub(<<0, 0>>, dir_offset[1])
    /\ dir_back # <<>> => dir_back[1] = <<dir_now>>
    /\ {DirToPos(e) : e \in Dir} = UnitSteps

\* South, reached from North by two left turns, was converted to (0, 1) and
\* back
C11_Witness ==
    /\ dir_start = "North"
    /\ dir_ops = <<"turn_left", "turn_left">>
    /\ dir_offset = << <<0, 1>> >>
    /\ dir_back = << <<"South">> >>

\* the direction that the calls named in ops make of d, by the cycle
\* North -> West -> South -> East -> North for turn_left, its reverse for
\* turn_right and North <-> South, West <-> East for opposite
LeftCycle == <<"North", "West", "South", "East">>

CycleIndex(d) == CHOOSE i \in 1 .. 4 : LeftCycle[i] = d

RECURSIVE CycleAfter(_, _)
CycleAfter(i, ops) ==
    IF ops = <<>> THEN i
    ELSE CycleAfter(CASE Head(ops) = "turn_left"  -> (i % 4) + 1
                      [] Head(ops) = "turn_right" -> ((i + 2) % 4) + 1
                      [] Head(ops) = "opposite"   -> ((i + 1) % 4) + 1,
                    Tail(ops))

\* C12: turn_left four times, turn_right four times and opposite twice give
\* the direction back; turn_left follows North -> West -> South -> East ->
\* North and turn_right undoes it.
C12_TurnsCycle ==
    /\ dir_ops = <<"turn_left", "turn_left", "turn_left", "turn_left">> => dir_now = dir_start
    /\ dir_ops = <<"turn_right", "turn_right", "turn_right", "turn_right">> => dir_now = dir_start
    /\ dir_ops = <<"opposite", "opposite">> => dir_now = dir_start
    /\ dir_ops = <<"turn_left", "turn_right">> => dir_now = dir_start
    /\ dir_ops = <<"turn_right", "turn_left">> => dir_now = dir_start
    /\ dir_now = LeftCycle[CycleAfter(CycleIndex(dir_start), dir_ops)]

\* four left turns from West
C12_Witness ==
    /\ dir_start = "West"
    /\ dir_ops = <<"turn_left", "turn_left", "turn_left", "turn_left">>
    /\ dir_now = "West"

(* ------------------- day14: the rock grid ------------------------------- *)
\* largest width and height of a rock grid drawn by InitRocks
MaxRockWidth == 4
MaxRockHeight == 3
\* largest number of round rocks and of cube rocks in such a grid
MaxRounds == 4
MaxCubes == 2

CYCLE_COUNT == 1000000000

CYCLE_DIRECTIONS == <<"North", "West", "South", "East">>

\* RockGrid::parse on rows of equal length: width is the length of the
\* first row, height the number of rows
RockGridParse(rows) == [grid |-> rows, width |-> Len(rows[1]), height |-> Len(rows)]

\* RockGrid::get whose test of the left edge is off by one
RockGetLeftEdge(rg, pos) ==
    IF pos[1] <= 0 \/ pos[1] >= rg.width \/ pos[2] < 0 \/ pos[2] >= rg.height
    THEN <<>>
    ELSE <<rg.grid[pos[2] + 1][pos[1] + 1]>>

\* RockGrid::get: None outside the grid, Some(self.grid[y][x]) inside
RockGet(rg, pos) ==
    IF pos[1] < 0 \/ pos[1] >= rg.width \/ pos[2] < 0 \/ pos[2] >= rg.height
    THEN <<>>
    ELSE <<rg.grid[pos[2] + 1][pos[1] + 1]>>

\* RockGrid::get_unchecked
RockGetUnchecked(rg, pos) == rg.grid[pos[2] + 1][pos[1] + 1]

\* self.grid[y][x] = cell
RockSet(rg, pos, cell) == [rg EXCEPT !.grid[pos[2] + 1][pos[1] + 1] = cell]

\* pos_iter of roll: the order in which roll looks at the cells
RollOrder(rg, dir) ==
    LET w == rg.width
        h == rg.height
    IN  [i \in 1 .. w * h |->
            CASE dir = "North" -> <<(i - 1) % w, (i - 1) \div w>>
              [] dir = "East"  -> <<w - 1 - ((i - 1) \div h), (i - 1) % h>>
              [] dir = "South" -> <<(i - 1) % w, h - 1 - ((i - 1) \div w)>>
              [] dir = "West"  -> <<(i - 1) \div h, (i - 1) % h>>]

\* pos_delta of roll
RollDelta(dir) ==
    CASE dir = "North" -> <<0, -1>>
      [] dir = "South" -> <<0, 1>>
      [] dir = "East"  -> <<1, 0>>
      [] dir = "West"  -> <<-1, 0>>

PosScale(p, amt) == <<p[1] * amt, p[2] * amt>>

\* (1..).map(..).take_while(get(pos + move_by) == Some(Empty)).last(): the
\* number of empty cells ahead of pos, 0 for None
RollAmount(rg, pos, delta) ==
    LET free(a) == \A k \in 1 .. a :
                      RockGet(rg, PosAdd(pos, PosScale(delta, k))) = <<"Empty">>
    IN  CHOOSE a \in 0 .. (rg.width + rg.height) :
            free(a) /\ ~free(a + 1)

\* the body of the for loop of roll for one position
RollOne(rg, pos, delta) ==
    IF RockGetUnchecked(rg, pos) = "Round"
    THEN LET amt == RollAmount(rg, pos, delta)
         IN  IF amt > 0
             THEN RockSet(RockSet(rg, pos, "Empty"),
                          PosAdd(pos, PosScale(delta, amt)), "Round")
             ELSE rg
    ELSE rg

RECURSIVE RollFrom(_, _, _, _)
\* the for loop of roll from the i-th position of the order on
RollFrom(rg, order, delta, i) ==
    IF i > Len(order) THEN rg
    ELSE CHOOSE r \in {RollFrom(rg1, order, delta, i + 1) :
                          rg1 \in {RollOne(rg, order[i], delta)}} : TRUE

\* RockGrid::roll
Roll(rg, dir) ==
    CHOOSE r \in {RollFrom(rg, order, RollDelta(dir), 1) :
                     order \in {RollOrder(rg, dir)}} : TRUE

RECURSIVE SpinFrom(_, _)
\* RockGrid::spin_cycle from the i-th direction of CYCLE_DIRECTIONS on
SpinFrom(rg, i) ==
    IF i > Len(CYCLE_DIRECTIONS) THEN rg
    ELSE CHOOSE r \in {SpinFrom(rg1, i + 1) :
                          rg1 \in {Roll(rg, CYCLE_DIRECTIONS[i])}} : TRUE

\* RockGrid::spin_cycle
SpinCycle(rg) == SpinFrom(rg, 1)

RECURSIVE SumOver(_, _)
SumOver(f, S) ==
    IF S = {} THEN 0
    ELSE LET x == CHOOSE x \in S : TRUE IN f[x] + SumOver(f, S \ {x})

\* RockGrid::north_load: height - y summed over the round rocks
NorthLoad(rg) ==
    LET round == {p \in (0 .. rg.width - 1) \X (0 .. rg.height - 1) :
                     rg.grid[p[2] + 1][p[1] + 1] = "Round"}
    IN  SumOver([p \in round |-> rg.height - p[2]], round)

(* ------------------- day14: solve_pt2 ----------------------------------- *)
\* solve_pt2 is called with the parsed grid
SolvePt2Start ==
    /\ pc14 = "parsed"
    /\ pc14' = "search"
    /\ UNCHANGED <<parsed, rocks, history, cycle, left_over_cycles, final_spins,
                   load, got>>
    /\ UnchangedBut("day14")

\* one iteration of for cycle in 0..CYCLE_COUNT: spin, look the grid up in
\* history; a known grid sets left_over_cycles and breaks, a new one is
\* inserted.  (remaining % cycle_length) - 1 on usize underflows when the
\* remainder is 0: a build with overflow checks panics, one without wraps to
\* usize::MAX.
SpinAndLook ==
    /\ pc14 = "search"
    /\ cycle < CYCLE_COUNT
    /\ \E spun \in {SpinCycle(rocks)} :
          /\ rocks' = spun
          /\ IF spun.grid \in DOMAIN history
             THEN LET historic_cycle == history[spun.grid]
                      remaining      == CYCLE_COUNT - cycle
                      cycle_length   == cycle - historic_cycle
                  IN  /\ IF remaining % cycle_length = 0
                         THEN /\ pc14' \in {"panicked", "wrapped"}
                              /\ UNCHANGED left_over_cycles
                         ELSE /\ pc14' = "final"
                              /\ left_over_cycles' = (remaining % cycle_length) - 1
                      /\ UNCHANGED <<history, cycle>>
             ELSE /\ history' = (spun.grid :> cycle) @@ history
                  /\ cycle' = cycle + 1
                  /\ UNCHANGED <<left_over_cycles, pc14>>
    /\ UNCHANGED <<parsed, final_spins, load, got>>
    /\ UnchangedBut("day14")

\* the second loop is reached by the break or when the first loop has run
\* CYCLE_COUNT times
InSecondLoop == pc14 = "final" \/ (pc14 = "search" /\ cycle = CYCLE_COUNT)

\* one iteration of for _ in 0..left_over_cycles
FinalSpin ==
    /\ InSecondLoop
    /\ final_spins < left_over_cycles
    /\ rocks' = SpinCycle(rocks)
    /\ final_spins' = final_spins + 1
    /\ pc14' = "final"
    /\ UNCHANGED <<parsed, history, cycle, left_over_cycles, load, got>>
    /\ UnchangedBut("day14")

\* one iteration of the second loop when left_over_cycles has wrapped to
\* usize::MAX: the loop does not end within any number of steps looked at
FinalSpinWrapped ==
    /\ pc14 = "wrapped"
    /\ rocks' = SpinCycle(rocks)
    /\ UNCHANGED <<parsed, history, cycle, left_over_cycles, final_spins, load,
                   got, pc14>>
    /\ UnchangedBut("day14")

\* input.north_load()
ReturnLoad ==
    /\ InSecondLoop
    /\ final_spins = left_over_cycles
    /\ load' = <<NorthLoad(rocks)>>
    /\ pc14' = "done"
    /\ UNCHANGED <<parsed, rocks, history, cycle, left_over_cycles, final_spins, got>>
    /\ UnchangedBut("day14")

\* the rows of a w x h grid with at most MaxRounds round and MaxCubes cube
\* rocks
Count(rows, cell) ==
    Cardinality({p \in (1 .. Len(rows)) \X (1 .. Len(rows[1])) : rows[p[1]][p[2]] = cell})

RockRows(w, h) ==
    {rows \in [1 .. h -> [1 .. w -> {"Round", "Cube", "Empty"}]] :
        Count(rows, "Round") <= MaxRounds /\ Count(rows, "Cube") <= MaxCubes}

\* parse_input returned a grid
InitRocks ==
    /\ \E w \in 1 .. MaxRockWidth, h \in 1 .. MaxRockHeight :
       \E rows \in RockRows(w, h) : parsed = RockGridParse(rows)
    /\ rocks = parsed
    /\ history = [k \in {} |-> 0]
    /\ cycle = 0
    /\ left_over_cycles = 0
    /\ final_spins = 0
    /\ load = <<>>
    /\ got = <<>>
    /\ pc14 = "parsed"
    /\ ParkedBut("day14")

NextRocks == SolvePt2Start \/ SpinAndLook \/ FinalSpin \/ FinalSpinWrapped \/ ReturnLoad

SpecRocks == InitRocks /\ [][NextRocks]_vars

RECURSIVE SpinOrbit(_)
\* the grids rg, spin(rg), spin(spin(rg)), ... up to the last one before a
\* grid comes again; orbit is the part found so far
SpinOrbit(orbit) ==
    LET spun == SpinCycle(orbit[Len(orbit)])
    IN  IF \E i \in DOMAIN orbit : orbit[i] = spun THEN orbit
        ELSE CHOOSE r \in {SpinOrbit(o) : o \in {Append(orbit, spun)}} : TRUE

\* the grid after n spin cycles from rg, from the orbit of rg: the orbit
\* returns to its entry of index back after its last entry
AfterSpins(rg, n) ==
    LET orbit  == SpinOrbit(<<rg>>)
        last   == Len(orbit) - 1
        back   == (CHOOSE i \in DOMAIN orbit : orbit[i] = SpinCycle(orbit[Len(orbit)])) - 1
        period == last + 1 - back
    IN  IF n <= last THEN orbit[n + 1]
        ELSE orbit[back + ((n - back) % period) + 1]

\* C15: solve_pt2 returns the north load of the grid after CYCLE_COUNT spin
\* cycles of the parsed grid, and computing left_over_cycles never
\* underflows.
C15_ShortcutIsDirectSimulation ==
    /\ pc14 \notin {"panicked", "wrapped"}
    /\ pc14 = "done" =>
          /\ rocks = AfterSpins(parsed, CYCLE_COUNT)
          /\ load = <<NorthLoad(AfterSpins(parsed, CYCLE_COUNT))>>

\* whenever solve_pt2 returns, it returns the load of the grid after
\* CYCLE_COUNT spin cycles
C15_DirectSimulationWhenReturned ==
    pc14 = "done" =>
          /\ rocks = AfterSpins(parsed, CYCLE_COUNT)
          /\ load = <<NorthLoad(AfterSpins(parsed, CYCLE_COUNT))>>

\* solve_pt2 returned after a second loop of at least one spin
C15_ReturnedAfterFinalSpin == pc14 = "done" /\ final_spins >= 1

(* ------------------- the checked accessor get --------------------------- *)
\* how far outside the grid the positions handed to get lie
MaxOutside == 1

\* Grid::new(rows): the rows one after the other in one buffer
GridNew(rows) ==
    MkGrid(Len(rows[1]), Len(rows),
           [i \in 1 .. Len(rows[1]) * Len(rows) |->
               rows[((i - 1) \div Len(rows[1])) + 1][((i - 1) % Len(rows[1])) + 1]])

\* one call of get(pos) on the parsed rock grid and on the aoc Grid made of
\* the same rows
GetStep ==
    /\ pc14 = "parsed"
    /\ got = <<>>
    /\ \E pos \in (-MaxOutside .. parsed.width - 1 + MaxOutside)
                    \X (-MaxOutside .. parsed.height - 1 + MaxOutside) :
          got' = <<[pos  |-> pos,
                    rock |-> RockGet(parsed, pos),
                    aoc  |-> GridGet(GridNew(parsed.grid), pos)]>>
    /\ UNCHANGED <<parsed, rocks, history, cycle, left_over_cycles, final_spins,
                   load, pc14>>
    /\ UnchangedBut("day14")

SpecGet == InitRocks /\ [][GetStep]_vars

\* C13: get(pos) returns None for every position with x < 0, x >= width,
\* y < 0 or y >= height and Some of the cell in column x of row y for every
\* other position (RockGrid::get of day14 and Grid::get of the aoc crate).
C13_GetIsChecked ==
    got # <<>> =>
        LET x == got[1].pos[1]
            y == got[1].pos[2]
        IN  IF x < 0 \/ x >= Len(parsed.grid[1]) \/ y < 0 \/ y >= Len(parsed.grid)
            THEN got[1].rock = <<>> /\ got[1].aoc = <<>>
            ELSE /\ got[1].rock = <<parsed.grid[y + 1][x + 1]>>
                 /\ got[1].aoc = <<parsed.grid[y + 1][x + 1]>>

\* get returned None one cell past the right edge of a grid, in the row of a
\* round rock
C13_Witness ==
    /\ got # <<>>
    /\ got[1].pos = <<parsed.width, 1>>
    /\ parsed.width >= 2
    /\ parsed.height >= 2
    /\ parsed.grid[2][parsed.width] = "Round"
    /\ got[1].rock = <<>>
    /\ got[1].aoc = <<>>

(* ------------------- day03: the character grid -------------------------- *)
\* largest number of characters (width * height) of a text drawn by
\* InitCharGrid
MaxCharCells == 6

\* the characters of the texts drawn: a dot, a gear, a digit
Chars == {".", "*", "7"}

RECURSIVE Flatten(_)
\* s.chars().filter(|c| *c != '\n').collect()
Flatten(lines) ==
    IF lines = <<>> THEN <<>> ELSE Head(lines) \o Flatten(Tail(lines))

\* CharGrid::from_str: the width is the length of the first line, the
\* height the number of lines
CharGridFromStr(lines) ==
    [data |-> Flatten(lines), width |-> Len(lines[1]), height |-> Len(lines)]

\* CharGrid::inbounds
CharInbounds(cg, pos) ==
    /\ pos[1] >= 0 /\ pos[1] < cg.width
    /\ pos[2] >= 0 /\ pos[2] < cg.height

\* CharGrid::index_to_pos
IndexToPos(cg, index) == <<index % cg.width, index \div cg.width>>

\* pos_to_index with the coordinates exchanged
PosToIndexTransposed(cg, pos) == pos[1] * cg.width + pos[2]

\* CharGrid::pos_to_index (after its debug assertion)
PosToIndex(cg, pos) == pos[2] * cg.width + pos[1]

\* one call of pos_to_index, with a position of the grid or one of the
\* column and the row after it; where the debug assertion does not hold, a
\* build with debug assertions panics and one without computes the index
PosToIndexCall ==
    /\ pc03 = "parsed"
    /\ pos_arg = <<>>
    /\ \E pos \in (0 .. char_grid.width) \X (0 .. char_grid.height) :
          /\ pos_arg' = <<pos>>
          /\ \/ /\ index_ret' = <<PosToIndex(char_grid, pos)>>
                /\ pc03' = "parsed"
             \/ /\ ~(pos[1] < char_grid.width /\ pos[2] < char_grid.height)
                /\ pc03' = "assert_failed"
                /\ UNCHANGED index_ret
    /\ UNCHANGED <<text, char_grid, pos_back>>
    /\ UnchangedBut("day03")

\* one call of index_to_pos with the index that pos_to_index returned
IndexToPosCall ==
    /\ pc03 = "parsed"
    /\ index_ret # <<>>
    /\ pos_back = <<>>
    /\ pos_back' = <<IndexToPos(char_grid, index_ret[1])>>
    /\ UNCHANGED <<text, char_grid, pos_arg, index_ret, pc03>>
    /\ UnchangedBut("day03")

\* parse_input on a text of lines of equal length
InitCharGrid ==
    /\ \E wh \in Shapes(MaxCharCells) :
          text \in [1 .. wh[2] -> [1 .. wh[1] -> Chars]]
    /\ char_grid = CharGridFromStr(text)
    /\ pos_arg = <<>>
    /\ index_ret = <<>>
    /\ pos_back = <<>>
    /\ pc03 = "parsed"
    /\ ParkedBut("day03")

NextCharGrid == PosToIndexCall \/ IndexToPosCall

SpecCharGrid == InitCharGrid /\ [][NextCharGrid]_vars

\* C14: for a position (x, y) of a grid of width w pos_to_index gives
\* y * w + x, which is where the buffer holds the character of column x of
\* line y; index_to_pos gives the position back; other positions of the grid
\* have other indices; every index is below w * h, the length of the buffer.
C14_RowMajorIndexing ==
    /\ Len(char_grid.data) = char_grid.width * char_grid.height
    /\ (index_ret # <<>> /\ CharInbounds(char_grid, pos_arg[1])) =>
          LET x == pos_arg[1][1]
              y == pos_arg[1][2]
          IN  /\ index_ret[1] = y * Len(text[1]) + x
              /\ index_ret[1] < Len(text[1]) * Len(text)
              /\ char_grid.data[index_ret[1] + 1] = text[y + 1][x + 1]
              /\ \A q \in (0 .. char_grid.width - 1) \X (0 .. char_grid.height - 1) :
                    q # pos_arg[1] => PosToIndex(char_grid, q) # index_ret[1]
              /\ pos_back # <<>> => pos_back[1] = pos_arg[1]
    /\ pc03 = "assert_failed" => ~CharInbounds(char_grid, pos_arg[1])
    \* test::parsing_input: position (3, 1) of a grid of width 10
    /\ PosToIndex([width |-> 10, height |-> 10], <<3, 1>>) = 13

\* position (2, 1) of a grid of width 3 and height 2 went to index 5 and
\* back
C14_Witness ==
    /\ char_grid.width = 3
    /\ char_grid.height = 2
    /\ pos_arg = << <<2, 1>> >>
    /\ index_ret = <<5>>
    /\ pos_back = << <<2, 1>> >>

(* ------------------- day12: possible arrangements ----------------------- *)
\* largest number of springs, largest group size and largest number of
\* groups of the records drawn, and the number of calls in a row
MaxSprings == 3
MaxGroupSize == 2
MaxGroups == 2
MaxRecordCalls == 2

SpringCondition == {"Operational", "Damaged", "Unknown"}

\* the value for no springs left that forgets a group counted down to 0
EndValueNoGroupLeft(groups) == IF Len(groups) = 0 THEN 1 ELSE 0

\* the match on groups.len() when no springs are left
EndValue(groups) ==
    IF Len(groups) = 0 THEN 1
    ELSE IF Len(groups) = 1 /\ groups[1] = 0 THEN 1
    ELSE 0

RECURSIVE PossibleArrangementsWith(_, _, _, _)
\* Record::possible_arrangements_with run on the cache c: the value it
\* returns and the cache it leaves
PossibleArrangementsWith(c, springs, groups, in_span) ==
    LET key  == <<springs, groups, in_span>>
        tail == Tail(springs)
        \* write value to the cache that the evaluation r left
        written(r) == [value |-> r.value, cache |-> (key :> r.value) @@ r.cache]
        through(r) == CHOOSE w \in {written(x) : x \in {r}} : TRUE
    IN  IF key \in DOMAIN c THEN [value |-> c[key], cache |-> c]
        ELSE IF springs = <<>>
             THEN through([value |-> EndValue(groups), cache |-> c])
        ELSE IF Head(springs) = "Operational"
             THEN IF groups # <<>> /\ groups[1] = 0
                  THEN through(PossibleArrangementsWith(c, tail, Tail(groups), FALSE))
                  ELSE IF groups # <<>>
                  THEN IF in_span
                       THEN through([value |-> 0, cache |-> c])
                       ELSE through(PossibleArrangementsWith(c, tail, groups, in_span))
                  ELSE through(PossibleArrangementsWith(c, tail, groups, in_span))
        ELSE IF Head(springs) = "Damaged"
             THEN IF groups = <<>> THEN through([value |-> 0, cache |-> c])
                  ELSE IF groups[1] = 0 THEN through([value |-> 0, cache |-> c])
                  ELSE through(PossibleArrangementsWith(
                                   c, tail, [groups EXCEPT ![1] = @ - 1], TRUE))
        ELSE \* Unknown: a with Damaged first, then b with Operational first
             LET second(a) ==
                     CHOOSE w \in
                         {written([value |-> a.value + b.value, cache |-> b.cache]) :
                             b \in {PossibleArrangementsWith(
                                        a.cache, <<"Operational">> \o tail, groups, in_span)}} :
                         TRUE
             IN  CHOOSE w \in
                     {second(a) :
                         a \in {PossibleArrangementsWith(
                                    c, <<"Damaged">> \o tail, groups, in_span)}} : TRUE

\* the records drawn: at least one spring and one group, as Record::parse
\* asks
SmallRecords ==
    {[springs |-> sp, groups |-> gr] :
        sp \in UNION {[1 .. n -> SpringCondition] : n \in 1 .. MaxSprings},
        gr \in UNION {[1 .. n -> 0 .. MaxGroupSize] : n \in 1 .. MaxGroups}}

\* the records of test::simple_test with the values it asserts
SpringsOf(str) ==
    [i \in DOMAIN str |->
        CASE str[i] = "#" -> "Damaged"
          [] str[i] = "." -> "Operational"
          [] str[i] = "?" -> "Unknown"]

SimpleTests ==
    {[springs |-> SpringsOf(<<"?", "?", "?", ".", "#", "#", "#">>),
      groups |-> <<1, 1, 3>>, expected |-> 1],
     [springs |-> SpringsOf(<<".", "?", "?", ".", ".", "?", "?", ".", ".", ".", "?", "#", "#", ".">>),
      groups |-> <<1, 1, 3>>, expected |-> 4],
     [springs |-> SpringsOf(<<"?", "#", "?", "#", "?", "#", "?", "#", "?", "#", "?", "#", "?", "#", "?">>),
      groups |-> <<1, 3, 1, 6>>, expected |-> 1],
     [springs |-> SpringsOf(<<"?", "?", "?", "?", ".", "#", ".", ".", ".", "#", ".", ".", ".">>),
      groups |-> <<4, 1, 1>>, expected |-> 1],
     [springs |-> SpringsOf(<<"?", "?", "?", "?", ".", "#", "#", "#", "#", "#", "#", ".", ".", "#", "#", "#", "#", "#", ".">>),
      groups |-> <<1, 6, 5>>, expected |-> 4],
     [springs |-> SpringsOf(<<"?", "#", "#", "#", "?", "?", "?", "?", "?", "?", "?", "?">>),
      groups |-> <<3, 2, 1>>, expected |-> 10]}

Records ==
    SmallRecords \cup {[springs |-> t.springs, groups |-> t.groups] : t \in SimpleTests}

\* one call of Record::possible_arrangements
PossibleArrangements ==
    /\ record_calls < MaxRecordCalls
    /\ \E rec \in Records :
       \E r \in {PossibleArrangementsWith(cache, rec.springs, rec.groups, FALSE)} :
          /\ record' = <<rec>>
          /\ arrangements' = <<r.value>>
          /\ cache' = r.cache
    /\ record_calls' = record_calls + 1
    /\ UnchangedBut("day12")

InitRecords == Day12Parked /\ ParkedBut("day12")

SpecRecords == InitRecords /\ [][PossibleArrangements]_vars

RECURSIVE DamagedRuns(_, _)
\* the lengths of the maximal runs of Damaged springs of springs, left to
\* right, when run Damaged springs come right before springs
DamagedRuns(springs, run) ==
    IF springs = <<>> THEN (IF run > 0 THEN <<run>> ELSE <<>>)
    ELSE IF Head(springs) = "Damaged" THEN DamagedRuns(Tail(springs), run + 1)
    ELSE (IF run > 0 THEN <<run>> ELSE <<>>) \o DamagedRuns(Tail(springs), 0)

\* the number of ways to make each Unknown spring Damaged or Operational so
\* that the runs of Damaged springs are groups
CountArrangements(springs, groups) ==
    Cardinality(
        {f \in [DOMAIN springs -> {"Damaged", "Operational"}] :
            /\ \A i \in DOMAIN springs : springs[i] # "Unknown" => f[i] = springs[i]
            /\ DamagedRuns(f, 0) = groups})

\* C16 as stated: for every record possible_arrangements returns the number
\* of replacements of the Unknown springs whose runs of Damaged springs are
\* exactly groups.
C16_CountsArrangements ==
    (arrangements # <<>> /\ Len(record[1].springs) <= MaxSprings) =>
        arrangements[1] = CountArrangements(record[1].springs, record[1].groups)

\* C16 amended: the same for every record whose groups are all at least 1;
\* the records of test::simple_test get the values the test asserts.
C16_CountsArrangementsOfPositiveGroups ==
    arrangements # <<>> =>
        /\ (/\ Len(record[1].springs) <= MaxSprings
            /\ \A i \in DOMAIN record[1].groups : record[1].groups[i] >= 1)
              => arrangements[1] = CountArrangements(record[1].springs, record[1].groups)
        /\ \A t \in SimpleTests :
              (record[1].springs = t.springs /\ record[1].groups = t.groups)
                  => arrangements[1] = t.expected

\* the second call, on a cache that an earlier call filled, returned 1 for
\* ??? with groups 1, 1 (#.# is the only way)
C16_Witness ==
    /\ record_calls = 2
    /\ record = <<[springs |-> <<"Unknown", "Unknown", "Unknown">>, groups |-> <<1, 1>>]>>
    /\ arrangements = <<1>>
    /\ Cardinality(DOMAIN cache) > 12

(* ------------------- day15: the lens boxes ------------------------------ *)
\* largest focal length of the Insert operations drawn
MaxFocal == 2

\* labels as sequences of character codes: rn and cm share a box, so do pc,
\* ot and ab; qp has a box of its own
Labels ==
    {<<114, 110>>, <<99, 109>>, <<113, 112>>, <<112, 99>>, <<111, 116>>, <<97, 98>>}

RECURSIVE HashFold(_, _)
\* fold(0, |acc, v| ((acc + v) * 17) % 256) over the character codes
HashFold(acc, s) ==
    IF s = <<>> THEN acc ELSE HashFold(((acc + Head(s)) * 17) % 256, Tail(s))

\* hash
Hash(s) == HashFold(0, s)

\* bkx.iter().find_position(|l| l.label == label): Some(index), from 1
FindPosition(bkx, label) ==
    IF \E i \in DOMAIN bkx : bkx[i].label = label
    THEN <<CHOOSE i \in DOMAIN bkx :
               bkx[i].label = label /\ \A j \in 1 .. i - 1 : bkx[j].label # label>>
    ELSE <<>>

\* Vec::swap_remove for Vec::remove: the last lens takes the place of the
\* removed one
VecSwapRemove(v, index) ==
    IF index = Len(v) THEN SubSeq(v, 1, Len(v) - 1)
    ELSE [i \in 1 .. Len(v) - 1 |-> IF i = index THEN v[Len(v)] ELSE v[i]]

\* Vec::remove(index): the later elements move one place to the front
VecRemove(v, index) == SubSeq(v, 1, index - 1) \o SubSeq(v, index + 1, Len(v))

\* one iteration of the loop for Operation::Remove(label)
RemoveOp(label) ==
    /\ pc15 = "running"
    /\ op' = <<[kind |-> "Remove", label |-> label, focal_length |-> 0]>>
    /\ LET h   == Hash(label)
           bkx == boxes[h]
           found == FindPosition(bkx, label)
       IN  boxes' = IF found # <<>>
                    THEN [boxes EXCEPT ![h] = VecRemove(bkx, found[1])]
                    ELSE boxes
    /\ UNCHANGED <<power, pc15>>
    /\ UnchangedBut("day15")

\* one iteration of the loop for Operation::Insert(label, focal_length)
InsertOp(label, focal_length) ==
    /\ pc15 = "running"
    /\ op' = <<[kind |-> "Insert", label |-> label, focal_length |-> focal_length]>>
    /\ LET h   == Hash(label)
           bkx == boxes[h]
           found == FindPosition(bkx, label)
       IN  boxes' = IF found # <<>>
                    THEN [boxes EXCEPT ![h][found[1]].focal_length = focal_length]
                    ELSE [boxes EXCEPT ![h] = Append(bkx, [label |-> label,
                                                           focal_length |-> focal_length])]
    /\ UNCHANGED <<power, pc15>>
    /\ UnchangedBut("day15")

RECURSIVE SumSeq(_)
SumSeq(v) == IF v = <<>> THEN 0 ELSE Head(v) + SumSeq(Tail(v))

\* the focusing power: (box_index + 1) * (lens_index + 1) * focal_length
\* summed over the lenses of all boxes
FocusingPower(bxs) ==
    LET filled == {b \in 0 .. 255 : bxs[b] # <<>>}
    IN  SumOver([b \in filled |->
                    SumSeq([i \in DOMAIN bxs[b] |-> (b + 1) * i * bxs[b][i].focal_length])],
                filled)

\* the input is used up: return the focusing power
ReturnPower ==
    /\ pc15 = "running"
    /\ power' = <<FocusingPower(boxes)>>
    /\ pc15' = "done"
    /\ UNCHANGED <<boxes, op>>
    /\ UnchangedBut("day15")

\* let mut boxes = from_fn(|_| Default::default())
InitBoxes ==
    /\ boxes = [b \in 0 .. 255 |-> <<>>]
    /\ op = <<>>
    /\ power = <<>>
    /\ pc15 = "running"
    /\ ParkedBut("day15")

NextBoxes ==
    \/ \E label \in Labels : RemoveOp(label)
    \/ \E label \in Labels, focal_length \in 1 .. MaxFocal : InsertOp(label, focal_length)
    \/ ReturnPower

SpecBoxes == InitBoxes /\ [][NextBoxes]_vars

\* the labels of the lenses of a box, front to back
LabelsOf(bkx) == [i \in DOMAIN bkx |-> bkx[i].label]

\* every label is in at most one place, and that place is in the box of its
\* hash
LabelsInPlace ==
    /\ DOMAIN boxes = 0 .. 255
    /\ LET filled == {b \in 0 .. 255 : boxes[b] # <<>>}
       IN  \A b \in filled : \A i \in DOMAIN boxes[b] :
              /\ Hash(boxes[b][i].label) = b
              /\ \A c \in filled : \A j \in DOMAIN boxes[c] :
                    boxes[c][j].label = boxes[b][i].label => (c = b /\ j = i)
    /\ op # <<>> => Hash(op[1].label) \in 0 .. 255
    \* test::test_hash: hash("HASH") = 52
    /\ Hash(<<72, 65, 83, 72>>) = 52

\* what one iteration does to the boxes, told from the operation op' it
\* has applied
OpEffect ==
    pc15' = "running" =>
        LET o == op'[1]
            h == Hash(o.label)
            present == \E i \in DOMAIN boxes[h] : boxes[h][i].label = o.label
        IN  /\ [boxes' EXCEPT ![h] = <<>>] = [boxes EXCEPT ![h] = <<>>]
            /\ (o.kind = "Insert" /\ present) =>
                  /\ LabelsOf(boxes'[h]) = LabelsOf(boxes[h])
                  /\ \A i \in DOMAIN boxes[h] :
                        boxes'[h][i].focal_length =
                            IF boxes[h][i].label = o.label THEN o.focal_length
                            ELSE boxes[h][i].focal_length
            /\ (o.kind = "Insert" /\ ~present) =>
                  boxes'[h] = boxes[h] \o <<[label |-> o.label,
                                            focal_length |-> o.focal_length]>>
            /\ o.kind = "Remove" =>
                  boxes'[h] = SelectSeq(boxes[h], LAMBDA l : l.label # o.label)

\* C17: after any sequence of Insert and Remove operations every label is
\* at most once in the boxes and only in box hash(label), which is in
\* 0..255; Insert of a present label changes only its focal length, Insert
\* of a new label appends it, Remove deletes the lens and keeps the order of
\* the others.
C17_BoxOperations == []LabelsInPlace /\ [][OpEffect]_vars

\* ot was removed from between pc and ab while box 0 holds rn and cm
C17_Witness ==
    /\ op = <<[kind |-> "Remove", label |-> <<111, 116>>, focal_length |-> 0]>>
    /\ LabelsOf(boxes[3]) = << <<112, 99>>, <<97, 98>> >>
    /\ LabelsOf(boxes[0]) = << <<114, 110>>, <<99, 109>> >>

(* ------------------- day17 find_path: what relaxation records ----------- *)
\* the states the search holds: the keys of g_scores and parents, the
\* parents themselves and the states of the frontier
HeldStates ==
    DOMAIN g_scores \cup DOMAIN parents \cup {parents[k] : k \in DOMAIN parents}
        \cup {KeyOf(e) : e \in frontier}

\* no frontier entry has a priority above the g-score recorded for its state
FrontierNotAboveScores ==
    \A e \in frontier :
        KeyOf(e) \in DOMAIN g_scores /\ e.f_score <= g_scores[KeyOf(e)]

\* a state whose g-score a step has recorded or lowered is in the frontier
\* after the step, with that g-score as its f_score
RecordedIsQueued ==
    \A k \in DOMAIN g_scores' :
        (k \notin DOMAIN g_scores \/ g_scores'[k] < g_scores[k]) =>
            \E e \in frontier' : KeyOf(e) = k /\ e.f_score = g_scores'[k]

\* C18: a state for which relaxation records a first or a strictly cheaper
\* cost is in the frontier afterwards with the recorded cost as priority, and
\* no frontier entry has a priority above the recorded g-score of its state.
C18_RelaxationQueues == []FrontierNotAboveScores /\ [][RecordedIsQueued]_vars

\* the search has recorded at least six states and holds a frontier entry
\* of cost at least 2 for a state with a run of two steps
C18_Witness ==
    /\ pc = "loop"
    /\ Cardinality(DOMAIN g_scores) >= 6
    /\ \E e \in frontier :
          /\ e.f_score >= 2
          /\ Len(e.previous_same_dirs) = 2
          /\ g_scores[KeyOf(e)] = e.f_score

\* C19: every state held in g_scores, parents or the frontier has a run of
\* equal directions of length 0 .. max_before_turn, of length 0 only for the
\* start state; the frontier holds no state twice; at most
\* width * height * 4 * max_before_turn + 1 states are recorded.
C19_RunsAreBounded ==
    /\ \A k \in HeldStates :
          /\ Len(k.previous_same_dirs) <= max_before_turn
          /\ \A i \in DOMAIN k.previous_same_dirs :
                /\ k.previous_same_dirs[i] \in Dir
                /\ k.previous_same_dirs[i] = k.previous_same_dirs[1]
          /\ k.previous_same_dirs = <<>> => k.pos = start_pos
    /\ \A e1 \in frontier : \A e2 \in frontier : KeyOf(e1) = KeyOf(e2) => e1 = e2
    /\ Cardinality(DOMAIN g_scores)
          <= city.width * city.height * 4 * max_before_turn + 1

\* a search with max_before_turn = 2 holds a state with a run of two steps
\* reached after a turn, and one on the start cell other than the start state
C19_Witness ==
    /\ max_before_turn = 2
    /\ \E k \in DOMAIN parents :
          /\ Len(k.previous_same_dirs) = 2
          /\ parents[parents[k]].previous_same_dirs # <<>>
          /\ parents[parents[k]].previous_same_dirs[1] # k.previous_same_dirs[1]
    /\ \E k \in DOMAIN g_scores : k.pos = start_pos /\ k.previous_same_dirs # <<>>

\* a step leaves every recorded g-score and parent as it is, and pushes
\* only states that had no g-score
RecordedIsKept ==
    /\ \A k \in DOMAIN g_scores :
          /\ k \in DOMAIN g_scores'
          /\ g_scores'[k] = g_scores[k]
          /\ IF k \in DOMAIN parents
             THEN k \in DOMAIN parents' /\ parents'[k] = parents[k]
             ELSE k \notin DOMAIN parents'
    /\ \A e \in frontier' \ frontier : KeyOf(e) \notin DOMAIN g_scores

\* C20: once find_path has recorded a g-score and a parent for a state they
\* never change, and each state is pushed onto the frontier at most once.
C20_RecordedOnce == [][RecordedIsKept]_vars

\* a state was reached a second time at its recorded cost: it has a
\* neighbour state, popped and expanded, that is not its parent
C20_Witness ==
    /\ pc = "loop"
    /\ state # <<>>
    /\ \E k \in DOMAIN parents :
          /\ parents[k] # KeyOf(state[1])
          /\ \E i \in DOMAIN Expand(city, KeyOf(state[1]), min_before_turn, max_before_turn) :
                Expand(city, KeyOf(state[1]), min_before_turn, max_before_turn)[i] = k
          /\ g_scores[k] = g_scores[KeyOf(state[1])] + GridGet(city, k.pos)[1]

(* ------------------- day17 find_path: the order of pops ----------------- *)
\* the entry a step pops: it leaves the frontier and becomes state
PoppedBy(e) == state' = <<e>> /\ e \in frontier /\ e \notin frontier'

\* a step that pops an entry pops one whose f_score is not below that of the
\* entry popped before it and equals the g-score recorded for its state
PopsInOrder ==
    \A e \in frontier :
        PoppedBy(e) =>
            /\ state # <<>> => state[1].f_score <= e.f_score
            /\ KeyOf(e) \in DOMAIN g_scores
            /\ g_scores[KeyOf(e)] = e.f_score

\* when find_path returns a path, the accepted state has the least g-score
\* a goal-satisfying state can have, and no recorded goal-satisfying state
\* has a smaller one
AcceptedIsLeast ==
    (pc = "returned" /\ ret[1] # <<>>) =>
        /\ <<state[1].f_score>>
             = LeastGoalCost(city, start_pos, target_pos, min_before_turn, max_before_turn)
        /\ g_scores[KeyOf(state[1])] = state[1].f_score
        /\ \A k \in DOMAIN g_scores :
              IsGoal(k, target_pos, min_before_turn) => g_scores[k] >= state[1].f_score

\* C21: states are popped in non-decreasing f_score order, the f_score of a
\* popped entry equals the g-score recorded for its state when it is popped,
\* and the first goal-satisfying state popped has the least g-score of all
\* goal-satisfying states.
C21_PopsInOrder == []AcceptedIsLeast /\ [][PopsInOrder]_vars

\* find_path accepted a state of cost at least 2 while another
\* goal-satisfying state with a greater g-score was recorded, in a city that
\* has cells of cost 0 (entries of equal f_score were popped one after another)
C21_Witness ==
    /\ pc = "returned"
    /\ ret[1] # <<>>
    /\ state[1].f_score >= 2
    /\ \E i \in DOMAIN city.cells : city.cells[i] = 0
    /\ \E k \in DOMAIN g_scores :
          /\ IsGoal(k, target_pos, min_before_turn)
          /\ g_scores[k] > state[1].f_score

(* ------------------- day17 find_path: the chain of parents -------------- *)
StartState == MkNode(start_pos, <<>>)

RECURSIVE ParentSteps(_, _, _)
\* the number of parent links from node to a state without a parent; -1 when
\* more than fuel links are followed (the chain does not end)
ParentSteps(par, node, fuel) ==
    IF node \notin DOMAIN par THEN 0
    ELSE IF fuel = 0 THEN -1
    ELSE CHOOSE n \in {IF m < 0 THEN -1 ELSE m + 1 :
                          m \in {ParentSteps(par, par[node], fuel - 1)}} : TRUE

\* the children the expansion of p yields
ChildrenOf(p) ==
    LET children == Expand(city, p, min_before_turn, max_before_turn)
    IN  {children[i] : i \in DOMAIN children}

\* C22: every recorded state but the start state has a recorded parent p
\* with g(s) = g(p) + cost(cell of s), one grid step away, whose expansion
\* yields s; the start state has no parent; following parents from a recorded
\* state ends at the start state within as many links as there are recorded
\* states; the path find_path returns ends with the start position and the
\* heat min_heat sums over it is the g-score of the accepted state.
C22_ParentsChain ==
    /\ DOMAIN parents \subseteq DOMAIN g_scores
    /\ StartState \notin DOMAIN parents
    /\ pc # "new" => (StartState \in DOMAIN g_scores /\ g_scores[StartState] = 0)
    /\ \A s \in DOMAIN g_scores \ {StartState} :
          /\ s \in DOMAIN parents
          /\ parents[s] \in DOMAIN g_scores
          /\ g_scores[s] = g_scores[parents[s]] + GridGet(city, s.pos)[1]
          /\ PosSub(s.pos, parents[s].pos) \in UnitVectors
          /\ s \in ChildrenOf(parents[s])
          /\ LET path  == Backtrack(parents, s)
                 links == ParentSteps(parents, s, Cardinality(DOMAIN g_scores))
             IN  /\ links >= 1
                 /\ Len(path) = links + 1
                 /\ path[Len(path)] = start_pos
    /\ FoundPath =>
          /\ ret[1][1] = Backtrack(parents, KeyOf(state[1]))
          /\ SumHeat(city, PopLast(ret[1][1])) = g_scores[KeyOf(state[1])]
    /\ pc = "done" => heat = <<g_scores[KeyOf(state[1])]>>

\* min_heat returned the g-score, at least 2, of a state four parent links
\* away from the start state, in a city that has cells of cost 0, while some
\* recorded state on the start cell has the start state as an ancestor
C22_Witness ==
    /\ pc = "done"
    /\ heat[1] >= 2
    /\ ParentSteps(parents, KeyOf(state[1]), Cardinality(DOMAIN g_scores)) >= 4
    /\ \E i \in DOMAIN city.cells : city.cells[i] = 0
    /\ \E k \in DOMAIN parents : k.pos = start_pos

(* ------------------- day17 find_path: the unwraps ----------------------- *)
\* the positions next to pos that pass the in_grid filter
NeighboursInGrid(g, pos) ==
    {Neighbours(pos)[i] : i \in {j \in DOMAIN Neighbours(pos) : InGrid(g, Neighbours(pos)[j])}}

\* popping entry e and expanding it fails no unwrap: e has a g-score, the
\* offset of every neighbour in the grid converts to a direction, and every
\* child is a state on a cell of the grid
ExpansionUnwraps(e) ==
    /\ KeyOf(e) \in DOMAIN g_scores
    /\ \A pos \in NeighboursInGrid(city, e.pos) :
          /\ PosSub(pos, e.pos) \in UnitVectors
          /\ DirTryFrom(PosSub(pos, e.pos)) # <<>>
    /\ \A c \in ChildrenOf(KeyOf(e)) :
          /\ c # UnwrapFailed
          /\ InGrid(city, c.pos)
          /\ GridGet(city, c.pos) # <<>>

\* C23: no unwrap of find_path fails: for every entry the loop can pop,
\* Dir::try_from is given a unit vector for each neighbour that passed the
\* in_grid filter, the cost of every child is read inside the grid, and the
\* popped state has a g-score; find_path never panics.
C23_UnwrapsSucceed ==
    /\ pc # "find_path_panicked"
    /\ \A e \in frontier : ExpansionUnwraps(e)
    /\ (state # <<>> /\ pc = "loop") => ExpansionUnwraps(state[1])

\* a state in a corner of a city of at least two rows and two columns was
\* popped and expanded: two of its neighbours are outside the grid, and the
\* search goes on with children recorded
C23_Witness ==
    /\ pc = "loop"
    /\ state # <<>>
    /\ city.width >= 2
    /\ city.height >= 2
    /\ state[1].pos = <<city.width - 1, city.height - 1>>
    /\ state[1].previous_same_dirs # <<>>
    /\ Cardinality(NeighboursInGrid(city, state[1].pos)) = 2
    /\ \E k \in DOMAIN parents : parents[k] = KeyOf(state[1])

(* ------------------- day05: the almanac and solve_pt2 ------------------- *)
\* largest range start (source or destination) and seed start drawn
MaxStart == 2
\* largest range length and seed count drawn
MaxRangeLen == 2
\* largest number of category maps of an almanac
MaxMaps == 2
\* largest number of ranges of a category map
MaxRanges == 2
\* largest location the model lets solve_pt2 examine
MaxLocation == 3

\* A range is <<to_start, from_start, len>>, a CategoryMap the sequence of
\* its map_ranges.

RECURSIVE ForwardFrom(_, _, _)
\* CategoryMap::forward from range i on: the first range whose source
\* interval holds the value maps it
ForwardFrom(map_ranges, value, i) ==
    IF i > Len(map_ranges) THEN value
    ELSE LET to_start   == map_ranges[i][1]
             from_start == map_ranges[i][2]
             len        == map_ranges[i][3]
         IN  IF from_start <= value /\ value < from_start + len
             THEN to_start + (value - from_start)
             ELSE ForwardFrom(map_ranges, value, i + 1)

Forward(map_ranges, value) == ForwardFrom(map_ranges, value, 1)

RECURSIVE BackwardFrom(_, _, _)
\* CategoryMap::backward from range i on: the first range whose destination
\* interval holds the value maps it back
BackwardFrom(map_ranges, value, i) ==
    IF i > Len(map_ranges) THEN value
    ELSE LET to_start   == map_ranges[i][1]
             from_start == map_ranges[i][2]
             len        == map_ranges[i][3]
         IN  IF to_start <= value /\ value < to_start + len
             THEN from_start + (value - to_start)
             ELSE BackwardFrom(map_ranges, value, i + 1)

Backward(map_ranges, value) == BackwardFrom(map_ranges, value, 1)

RECURSIVE ThroughFrom(_, _, _)
ThroughFrom(maps, seed, i) ==
    IF i > Len(maps) THEN seed
    ELSE ThroughFrom(maps, Forward(maps[i], seed), i + 1)

\* Almanac::through_all: forward through the maps in order
ThroughAll(a, seed) == ThroughFrom(a.maps, seed, 1)

RECURSIVE BackThroughFrom(_, _, _)
BackThroughFrom(maps, loc, i) ==
    IF i < 1 THEN loc
    ELSE BackThroughFrom(maps, Backward(maps[i], loc), i - 1)

\* Almanac::back_through_all: backward through the maps in reverse order
BackThroughAll(a, loc) == BackThroughFrom(a.maps, loc, Len(a.maps))

\* initial_seeds.chunks(2).map(|l| l[0]..l[0] + l[1]).any(|r| r.contains(..))
InSeedRanges(a, seed) ==
    \E c \in 1 .. (Len(a.initial_seeds) \div 2) :
        /\ a.initial_seeds[2 * c - 1] <= seed
        /\ seed < a.initial_seeds[2 * c - 1] + a.initial_seeds[2 * c]

\* the closure of find for one location, up to the debug assertion: a debug
\* build panics when the round trip does not return the location
ExamineAssertFails ==
    /\ pc05 = "search"
    /\ location <= MaxLocation
    /\ \E seed \in {BackThroughAll(almanac, location)} :
          /\ ThroughAll(almanac, seed) # location
          /\ possible_seed' = <<seed>>
    /\ pc05' = "assert_failed"
    /\ UNCHANGED <<almanac, location, lowest>>
    /\ UnchangedBut("day05")

\* the closure returns true: find returns the location.  (A build without
\* debug assertions gets here whatever the round trip returns.)
ExamineFound ==
    /\ pc05 = "search"
    /\ location <= MaxLocation
    /\ \E seed \in {BackThroughAll(almanac, location)} :
          /\ InSeedRanges(almanac, seed)
          /\ possible_seed' = <<seed>>
    /\ lowest' = <<location>>
    /\ pc05' = "done"
    /\ UNCHANGED <<almanac, location>>
    /\ UnchangedBut("day05")

\* the closure returns false: find goes on with the next location
ExamineNext ==
    /\ pc05 = "search"
    /\ location <= MaxLocation
    /\ \E seed \in {BackThroughAll(almanac, location)} :
          /\ ~InSeedRanges(almanac, seed)
          /\ possible_seed' = <<seed>>
    /\ location' = location + 1
    /\ UNCHANGED <<almanac, lowest, pc05>>
    /\ UnchangedBut("day05")

MapRanges == (0 .. MaxStart) \X (0 .. MaxStart) \X (1 .. MaxRangeLen)

\* the category maps of at most MaxRanges ranges
CategoryMaps == UNION {[1 .. n -> MapRanges] : n \in 1 .. MaxRanges}

\* parse_input returned an almanac of one seed range; solve_pt2 starts at
\* location 0
InitAlmanac ==
    /\ \E start \in 0 .. MaxStart, count \in 1 .. MaxRangeLen :
       \E n \in 1 .. MaxMaps :
       \E ms \in [1 .. n -> CategoryMaps] :
          almanac = [initial_seeds |-> <<start, count>>, maps |-> ms]
    /\ location = 0
    /\ possible_seed = <<>>
    /\ lowest = <<>>
    /\ pc05 = "search"
    /\ ParkedBut("day05")

NextAlmanac == ExamineAssertFails \/ ExamineFound \/ ExamineNext

SpecAlmanac == InitAlmanac /\ [][NextAlmanac]_vars

\* C24: for every location solve_pt2 examines, mapping it backwards through
\* all maps and forwards again returns the location: the debug assertion
\* never fails.
C24_RoundTrip ==
    /\ pc05 # "assert_failed"
    /\ possible_seed # <<>> =>
          ThroughAll(almanac, possible_seed[1])
              = (IF pc05 = "search" THEN location - 1 ELSE location)

\* the values of the source and of the destination intervals of a map
SourceValues(map_ranges) ==
    UNION {map_ranges[i][2] .. map_ranges[i][2] + map_ranges[i][3] - 1 :
              i \in DOMAIN map_ranges}

DestinationValues(map_ranges) ==
    UNION {map_ranges[i][1] .. map_ranges[i][1] + map_ranges[i][3] - 1 :
              i \in DOMAIN map_ranges}

\* the ranges of the map move the values of its source intervals around
\* among themselves, no two of them to the same place
IsRearrangement(map_ranges) ==
    /\ SourceValues(map_ranges) = DestinationValues(map_ranges)
    /\ \A v \in SourceValues(map_ranges), w \in SourceValues(map_ranges) :
          Forward(map_ranges, v) = Forward(map_ranges, w) => v = w
    /\ \A i \in DOMAIN map_ranges, j \in DOMAIN map_ranges :
          i # j => (map_ranges[i][1] .. map_ranges[i][1] + map_ranges[i][3] - 1)
                      \cap (map_ranges[j][1] .. map_ranges[j][1] + map_ranges[j][3] - 1) = {}

\* the round trip for almanacs whose maps are all rearrangements
C24_RoundTripOfRearrangements ==
    (\A i \in DOMAIN almanac.maps : IsRearrangement(almanac.maps[i])) =>
        /\ pc05 # "assert_failed"
        /\ possible_seed # <<>> =>
              ThroughAll(almanac, possible_seed[1])
                  = (IF pc05 = "search" THEN location - 1 ELSE location)

\* solve_pt2 returned a location through two maps that both swap values
C24_ReturnedThroughSwaps ==
    /\ pc05 = "done"
    /\ Len(almanac.maps) = 2
    /\ \A i \in DOMAIN almanac.maps :
          /\ IsRearrangement(almanac.maps[i])
          /\ Len(almanac.maps[i]) = 2
          /\ Forward(almanac.maps[i], 0) # 0
    /\ possible_seed[1] # lowest[1]

\* what solve_pt2 returns is the least location of any seed of the seed
\* ranges
C24_LowestIsLeastLocation ==
    pc05 = "done" =>
        \E seed \in 0 .. MaxStart + MaxRangeLen :
            /\ InSeedRanges(almanac, seed)
            /\ ThroughAll(almanac, seed) = lowest[1]

(* ------------------- day03: part_numbers and solve_pt2 ------------------ *)
\* GridPos::neighbours: the eight positions around pos, in the order of the
\* array, without those of a negative coordinate
CharNeighbours(pos) ==
    LET x == pos[1]
        y == pos[2]
    IN  SelectSeq(<< <<x - 1, y - 1>>, <<x, y - 1>>, <<x + 1, y - 1>>, <<x + 1, y>>,
                     <<x + 1, y + 1>>, <<x, y + 1>>, <<x - 1, y + 1>>, <<x - 1, y>> >>,
                  LAMBDA q : q[1] >= 0 /\ q[2] >= 0)

\* c.is_ascii_digit() for the characters drawn
IsDigit(c) == c = "7"

\* !c.is_alphanumeric() && c != '.'
IsSymbol(c) == ~IsDigit(c) /\ c # "."

\* symbol_locations
SymbolLocations(cg) ==
    {IndexToPos(cg, i - 1) : i \in {j \in DOMAIN cg.data : IsSymbol(cg.data[j])}}

\* the positions part_numbers passes to pos_to_index: the neighbours of the
\* symbols that are inbounds
SurroundPositions(cg) ==
    UNION {{CharNeighbours(pos)[k] :
               k \in {j \in DOMAIN CharNeighbours(pos) :
                         CharInbounds(cg, CharNeighbours(pos)[j])}} :
              pos \in SymbolLocations(cg)}

RECURSIVE ParseUsize(_)
\* part_number.parse::<usize>() of a string of digits
ParseUsize(digits) ==
    IF digits = <<>> THEN 0
    ELSE 10 * ParseUsize(SubSeq(digits, 1, Len(digits) - 1)) + 7

RECURSIVE PartNumbersFrom(_, _, _, _, _, _, _)
\* the loop of part_numbers from index i on; a range is <<start, end>>, the
\* indices start .. end - 1
PartNumbersFrom(cg, symbol_surrounds, i, buffer, near_symbol, buffer_start, acc) ==
    IF i >= Len(cg.data) THEN acc
    ELSE LET c      == cg.data[i + 1]
             digit  == IsDigit(c)
             start1 == IF digit /\ buffer = <<>> THEN i ELSE buffer_start
             buf1   == IF digit THEN Append(buffer, c) ELSE buffer
             near1  == IF digit /\ i \in symbol_surrounds THEN TRUE ELSE near_symbol
             flush  == ~digit \/ (i + 1) % cg.width = 0
             acc1   == IF flush /\ buf1 # <<>> /\ near1
                       THEN Append(acc, [range |-> <<start1, i>>,
                                         value |-> ParseUsize(buf1)])
                       ELSE acc
         IN  PartNumbersFrom(cg, symbol_surrounds, i + 1,
                             IF flush THEN <<>> ELSE buf1,
                             IF flush THEN FALSE ELSE near1, start1, acc1)

\* CharGrid::part_numbers
PartNumbers(cg) ==
    PartNumbersFrom(cg, {PosToIndex(cg, pos) : pos \in SurroundPositions(cg)},
                    0, <<>>, FALSE, 0, <<>>)

\* gear_indices: every index of the range of part number id goes to
\* (id, value); ids count from 0
GearIndices(pns) ==
    [i \in UNION {pns[id].range[1] .. pns[id].range[2] - 1 : id \in DOMAIN pns} |->
        LET id == CHOOSE n \in DOMAIN pns :
                      /\ pns[n].range[1] <= i /\ i < pns[n].range[2]
                      /\ \A m \in DOMAIN pns :
                            (pns[m].range[1] <= i /\ i < pns[m].range[2]) => m <= n
        IN  <<id - 1, pns[id].value>>]

\* the first call of solve_pt2: part_numbers and the map built from it
PartNumbersCall ==
    /\ pc03g = "start"
    /\ surround_calls' = SurroundPositions(char_grid)
    /\ \E pns \in {PartNumbers(char_grid)} :
          /\ part_numbers' = pns
          /\ gear_indices' = GearIndices(pns)
    /\ pc03g' = "gears"
    /\ UNCHANGED <<gear_next, gear_pos, gear_calls, gear_parts, gear_sum>>
    /\ UnchangedBut("gears")

\* the indices of data from gear_next on that hold a '*'
GearsLeft ==
    {i \in gear_next .. Len(char_grid.data) - 1 : char_grid.data[i + 1] = "*"}

\* neighbours().map(|np| input.pos_to_index(np)): the calls for the gear at
\* pos, each <<np, ni>>
GearCalls(cg, pos) ==
    [k \in DOMAIN CharNeighbours(pos) |->
        <<CharNeighbours(pos)[k], PosToIndex(cg, CharNeighbours(pos)[k])>>]

RECURSIVE GearPartsFrom(_, _, _, _)
\* flat_map(|ni| gear_indices.get(&ni)).unique_by(|(gear_id, _)| gear_id)
GearPartsFrom(calls, indices, k, acc) ==
    IF k > Len(calls) THEN acc
    ELSE LET ni == calls[k][2]
         IN  IF ni \in DOMAIN indices
                   /\ \A j \in DOMAIN acc : acc[j][1] # indices[ni][1]
             THEN GearPartsFrom(calls, indices, k + 1, Append(acc, indices[ni]))
             ELSE GearPartsFrom(calls, indices, k + 1, acc)

\* the filter_map closure for the next gear; asserted tells whether the
\* build has debug assertions, in which case a call of pos_to_index with a
\* position outside the grid panics
GearStep(asserted) ==
    /\ pc03g = "gears"
    /\ GearsLeft # {}
    /\ \E i \in {n \in GearsLeft : \A m \in GearsLeft : n <= m} :
       \E calls \in {GearCalls(char_grid, IndexToPos(char_grid, i))} :
          /\ gear_pos' = <<IndexToPos(char_grid, i)>>
          /\ gear_next' = i + 1
          /\ IF asserted /\ \E k \in DOMAIN calls : ~CharInbounds(char_grid, calls[k][1])
             THEN /\ pc03g' = "assert_failed"
                  /\ gear_calls' = SubSeq(calls, 1,
                         CHOOSE k \in DOMAIN calls :
                             /\ ~CharInbounds(char_grid, calls[k][1])
                             /\ \A j \in 1 .. k - 1 : CharInbounds(char_grid, calls[j][1]))
                  /\ UNCHANGED <<gear_parts, gear_sum>>
             ELSE \E parts \in {GearPartsFrom(calls, gear_indices, 1, <<>>)} :
                  /\ pc03g' = "gears"
                  /\ gear_calls' = calls
                  /\ gear_parts' = parts
                  /\ gear_sum' = IF Len(parts) = 2
                                 THEN gear_sum + parts[1][2] * parts[2][2]
                                 ELSE gear_sum
    /\ UNCHANGED <<part_numbers, gear_indices, surround_calls>>
    /\ UnchangedBut("gears")

\* no gear is left: sum() returns
GearsDone ==
    /\ pc03g = "gears"
    /\ GearsLeft = {}
    /\ pc03g' = "done"
    /\ UNCHANGED <<part_numbers, gear_indices, surround_calls, gear_next, gear_pos,
                   gear_calls, gear_parts, gear_sum>>
    /\ UnchangedBut("gears")

\* parse_input on a text of lines of equal length, then solve_pt2
InitGears ==
    /\ \E wh \in Shapes(MaxCharCells) :
          text \in [1 .. wh[2] -> [1 .. wh[1] -> Chars]]
    /\ char_grid = CharGridFromStr(text)
    /\ pos_arg = <<>>
    /\ index_ret = <<>>
    /\ pos_back = <<>>
    /\ pc03 = "parsed"
    /\ part_numbers = <<>>
    /\ gear_indices = [k \in {} |-> 0]
    /\ surround_calls = {}
    /\ gear_next = 0
    /\ gear_pos = <<>>
    /\ gear_calls = <<>>
    /\ gear_parts = <<>>
    /\ gear_sum = 0
    /\ pc03g = "start"
    /\ ParkedBut("gears")

NextGears ==
    \/ PartNumbersCall
    \/ GearStep(TRUE)
    \/ GearStep(FALSE)
    \/ GearsDone

SpecGears == InitGears /\ [][NextGears]_vars

\* the position is the gear's or one of the eight around it
NextTo(p, q) == Abs(p[1] - q[1]) <= 1 /\ Abs(p[2] - q[2]) <= 1

\* C25: pos_to_index is only called with positions inside the grid, by
\* part_numbers and by solve_pt2 (its debug assertion never fails), and the
\* part numbers found for a gear have a digit next to the gear.
C25_PosToIndexInGrid ==
    /\ pc03g # "assert_failed"
    /\ \A pos \in surround_calls : CharInbounds(char_grid, pos)
    /\ \A k \in DOMAIN gear_calls : CharInbounds(char_grid, gear_calls[k][1])
    /\ \A k \in DOMAIN gear_parts :
          \E i \in part_numbers[gear_parts[k][1] + 1].range[1]
                     .. part_numbers[gear_parts[k][1] + 1].range[2] - 1 :
              NextTo(IndexToPos(char_grid, i), gear_pos[1])

\* only the calls of part_numbers are inside the grid
C25_PartNumbersCallsInGrid ==
    \A pos \in surround_calls : CharInbounds(char_grid, pos)

\* without debug assertions a gear is given a part number that has no digit
\* next to it
C25_GearGivenFarPart ==
    /\ pc03g = "gears"
    /\ \E k \in DOMAIN gear_parts :
          \A i \in part_numbers[gear_parts[k][1] + 1].range[1]
                     .. part_numbers[gear_parts[k][1] + 1].range[2] - 1 :
              ~NextTo(IndexToPos(char_grid, i), gear_pos[1])

(* ------------------- day16: trace_beam and solve_pt2 -------------------- *)
\* largest number of cells (width * height) of a floor drawn
MaxFloorCells == 4

\* Cell: Empty, Splitter(Horizontal) '-', Splitter(Vertical) '|',
\* Mirror(Left) '/', Mirror(Right) '\'
FloorCells == {"Empty", "SplitterHorizontal", "SplitterVertical",
               "MirrorLeft", "MirrorRight"}

\* Dir::orthogonal: the axis a direction runs along
Orthogonal(d) == IF d \in {"West", "East"} THEN "Horizontal" ELSE "Vertical"

\* Grid::get_mut(pos).unwrap() followed by a write of the cell
GridWith(g, p, v) == [g EXCEPT !.cells[p[2] * g.width + p[1] + 1] = v]

\* Floor::parse: the layout and a direction history of empty sets of the
\* same shape (Grid::from_default)
FloorParse(layout) ==
    [layout |-> layout,
     dir_history |-> MkGrid(layout.width, layout.height,
                            [i \in 1 .. layout.width * layout.height |-> {}])]

RECURSIVE WhileEmpty(_, _, _, _)
\* the while loop of trace_beam: over Empty cells the direction is inserted
\* and the position advanced; returned tells that the insert found the
\* direction recorded and trace_beam returned
WhileEmpty(layout, dirs_seen, pos, direction) ==
    IF GridGet(layout, pos) = <<"Empty">>
    THEN IF direction \in GridGet(dirs_seen, pos)[1]
         THEN [dir_history |-> dirs_seen, pos |-> pos, returned |-> TRUE]
         ELSE WhileEmpty(layout,
                         GridWith(dirs_seen, pos, GridGet(dirs_seen, pos)[1] \cup {direction}),
                         PosAdd(pos, DirToPos(direction)), direction)
    ELSE [dir_history |-> dirs_seen, pos |-> pos, returned |-> FALSE]

\* the calls trace_beam makes for the cell it stopped at, in order
BeamCallsAt(cell, pos, direction) ==
    IF cell \in {"SplitterHorizontal", "SplitterVertical"}
    THEN IF cell # (IF Orthogonal(direction) = "Horizontal"
                    THEN "SplitterHorizontal" ELSE "SplitterVertical")
         THEN << <<PosAdd(pos, DirToPos(TurnLeft(direction))), TurnLeft(direction)>>,
                 <<PosAdd(pos, DirToPos(TurnRight(direction))), TurnRight(direction)>> >>
         ELSE << <<PosAdd(pos, DirToPos(direction)), direction>> >>
    ELSE LET new_dir ==
                 CASE cell = "MirrorLeft" /\ Orthogonal(direction) = "Horizontal"
                          -> TurnLeft(direction)
                   [] cell = "MirrorLeft" /\ Orthogonal(direction) = "Vertical"
                          -> TurnRight(direction)
                   [] cell = "MirrorRight" /\ Orthogonal(direction) = "Horizontal"
                          -> TurnRight(direction)
                   [] cell = "MirrorRight" /\ Orthogonal(direction) = "Vertical"
                          -> TurnLeft(direction)
         IN  << <<PosAdd(pos, DirToPos(new_dir)), new_dir>> >>

\* trace_beam without the early exit on a recorded direction at the cell
\* the beam stopped at
TraceBeamCallNoEarlyExit(fl, from, direction) ==
    LET walked == WhileEmpty(fl.layout, fl.dir_history, from, direction)
        pos    == walked.pos
    IN  IF walked.returned \/ GridGet(fl.layout, pos) = <<>>
        THEN [floor |-> [fl EXCEPT !.dir_history = walked.dir_history], calls |-> <<>>]
        ELSE [floor |-> [fl EXCEPT !.dir_history =
                            GridWith(walked.dir_history, pos,
                                     GridGet(walked.dir_history, pos)[1] \cup {direction})],
              calls |-> BeamCallsAt(GridGet(fl.layout, pos)[1], pos, direction)]

\* one call of Floor::trace_beam up to the calls it makes of itself: the
\* floor it leaves and those calls
TraceBeamCall(fl, from, direction) ==
    LET walked == WhileEmpty(fl.layout, fl.dir_history, from, direction)
        pos    == walked.pos
    IN  IF walked.returned \/ GridGet(fl.layout, pos) = <<>>
        THEN [floor |-> [fl EXCEPT !.dir_history = walked.dir_history], calls |-> <<>>]
        ELSE IF direction \in GridGet(walked.dir_history, pos)[1]
        THEN [floor |-> [fl EXCEPT !.dir_history = walked.dir_history], calls |-> <<>>]
        ELSE [floor |-> [fl EXCEPT !.dir_history =
                            GridWith(walked.dir_history, pos,
                                     GridGet(walked.dir_history, pos)[1] \cup {direction})],
              calls |-> BeamCallsAt(GridGet(fl.layout, pos)[1], pos, direction)]

\* Floor::energy_level: the number of cells with a non-empty direction set
EnergyLevel(fl) ==
    Cardinality({i \in DOMAIN fl.dir_history.cells : fl.dir_history.cells[i] # {}})

\* the next call of trace_beam runs; the calls it makes run before the
\* calls that were waiting
TraceBeam ==
    /\ pc16 = "tracing"
    /\ beam_calls # <<>>
    /\ \E r \in {TraceBeamCall(floor, Head(beam_calls)[1], Head(beam_calls)[2])} :
          /\ floor' = r.floor
          /\ beam_calls' = r.calls \o Tail(beam_calls)
    /\ UNCHANGED <<floor_input, beam_start, starts_left, levels, max_level, pc16>>
    /\ UnchangedBut("day16")

\* trace_beam has returned: energy_level
TraceReturned ==
    /\ pc16 = "tracing"
    /\ beam_calls = <<>>
    /\ levels' = Append(levels, EnergyLevel(floor))
    /\ pc16' = "traced"
    /\ UNCHANGED <<floor_input, floor, beam_start, beam_calls, starts_left, max_level>>
    /\ UnchangedBut("day16")

\* the map closure of solve_pt2 that traces on the floor of the trace before
CloneAndTraceShared ==
    /\ pc16 \in {"pick", "traced"}
    /\ starts_left # <<>>
    /\ floor' = IF pc16 = "pick" THEN floor_input ELSE floor
    /\ beam_start' = <<Head(starts_left)>>
    /\ beam_calls' = <<Head(starts_left)>>
    /\ starts_left' = Tail(starts_left)
    /\ pc16' = "tracing"
    /\ UNCHANGED <<floor_input, levels, max_level>>
    /\ UnchangedBut("day16")

\* the map closure of solve_pt2 for the next start: input.clone(), then
\* trace_beam(from, direction) on the clone
CloneAndTrace ==
    /\ pc16 \in {"pick", "traced"}
    /\ starts_left # <<>>
    /\ floor' = floor_input
    /\ beam_start' = <<Head(starts_left)>>
    /\ beam_calls' = <<Head(starts_left)>>
    /\ starts_left' = Tail(starts_left)
    /\ pc16' = "tracing"
    /\ UNCHANGED <<floor_input, levels, max_level>>
    /\ UnchangedBut("day16")

RECURSIVE MaxOf(_)
MaxOf(v) ==
    IF Len(v) = 1 THEN v[1]
    ELSE IF v[1] >= MaxOf(Tail(v)) THEN v[1] ELSE MaxOf(Tail(v))

\* max() over the energy levels of all starts
MaxLevel ==
    /\ pc16 = "traced"
    /\ starts_left = <<>>
    /\ max_level' = <<MaxOf(levels)>>
    /\ pc16' = "done"
    /\ UNCHANGED <<floor_input, floor, beam_start, beam_calls, starts_left, levels>>
    /\ UnchangedBut("day16")

\* left.chain(right).chain(top).chain(bottom)
EdgeStarts(width, height) ==
    [y \in 1 .. height |-> << <<0, y - 1>>, "East">>]
      \o [y \in 1 .. height |-> << <<width - 1, y - 1>>, "West">>]
      \o [x \in 1 .. width |-> << <<x - 1, 0>>, "South">>]
      \o [x \in 1 .. width |-> << <<x - 1, height - 1>>, "North">>]

\* the layouts of at most MaxFloorCells cells
Layouts ==
    UNION {{MkGrid(wh[1], wh[2], cells) :
                cells \in [1 .. wh[1] * wh[2] -> FloorCells]} : wh \in Shapes(MaxFloorCells)}

\* what parse_input returns for the layouts drawn
ParsedFloors == {FloorParse(layout) : layout \in Layouts}

\* parse_input, then trace_beam from some cell in some direction on the
\* parsed floor (solve_pt1 does so from (0, 0) eastwards)
ParseAndTrace ==
    /\ pc16 = "parked"
    /\ floor_input' \in ParsedFloors
    /\ floor' = floor_input'
    /\ beam_start' \in {<<q>> : q \in GridPositions(floor_input'.layout) \X Dir}
    /\ beam_calls' = beam_start'
    /\ pc16' = "tracing"
    /\ UNCHANGED <<starts_left, levels, max_level>>
    /\ UnchangedBut("day16")

\* parse_input, then solve_pt2 up to its first call of the map closure
ParseAndSolve ==
    /\ pc16 = "parked"
    /\ floor_input' \in ParsedFloors
    /\ starts_left' = EdgeStarts(floor_input'.layout.width, floor_input'.layout.height)
    /\ pc16' = "pick"
    /\ UNCHANGED <<floor, beam_start, beam_calls, levels, max_level>>
    /\ UnchangedBut("day16")

InitFloor == Day16Parked /\ ParkedBut("day16")

NextBeam == ParseAndTrace \/ TraceBeam \/ TraceReturned

\* trace_beam runs on without outside interference
FairSpecBeam == InitFloor /\ [][NextBeam]_vars /\ WF_vars(NextBeam)

NextFloor == ParseAndSolve \/ CloneAndTrace \/ TraceBeam \/ TraceReturned \/ MaxLevel

SpecFloor == InitFloor /\ [][NextFloor]_vars

(* ------------------- day16: where a beam goes --------------------------- *)
\* the (position, direction) pairs a beam on pair goes to next, inside the
\* grid or not
BeamNext(layout, pair) ==
    LET cell == GridGet(layout, pair[1])[1]
    IN  IF cell = "Empty" THEN {<<PosAdd(pair[1], DirToPos(pair[2])), pair[2]>>}
        ELSE {BeamCallsAt(cell, pair[1], pair[2])[k] :
                 k \in DOMAIN BeamCallsAt(cell, pair[1], pair[2])}

RECURSIVE BeamClosure(_, _)
\* the pairs inside the grid that beams on the pairs of S reach, those of S
\* included
BeamClosure(layout, S) ==
    LET more == S \cup {q \in UNION {BeamNext(layout, pair) : pair \in S} :
                           InGrid(layout, q[1])}
    IN  IF more = S THEN S
        ELSE CHOOSE r \in {BeamClosure(layout, m) : m \in {more}} : TRUE

\* the pairs the beam that enters at start passes through
BeamPairs(layout, start) ==
    BeamClosure(layout, {q \in {start} : InGrid(layout, q[1])})

\* the pairs a direction history records
RecordedPairs(fl) ==
    {q \in GridPositions(fl.layout) \X Dir : q[2] \in GridGet(fl.dir_history, q[1])[1]}

\* the beam comes back to a pair it passed through
BeamLoops(layout, start) ==
    \E pair \in BeamPairs(layout, start) :
        pair \in BeamClosure(layout, {q \in BeamNext(layout, pair) : InGrid(layout, q[1])})

\* while a trace runs, the recorded pairs are pairs the beam passes through
\* and every waiting call is for a pair the beam goes to; when it has
\* returned, exactly the pairs the beam passes through are recorded, so
\* every cell it passes through has a non-empty direction set
BeamIsRecorded ==
    pc16 \in {"tracing", "traced"} =>
        LET pairs == BeamPairs(floor.layout, beam_start[1])
        IN  /\ RecordedPairs(floor) \subseteq pairs
            /\ \A k \in DOMAIN beam_calls :
                  InGrid(floor.layout, beam_calls[k][1]) => beam_calls[k] \in pairs
            /\ pc16 = "traced" =>
                  /\ RecordedPairs(floor) = pairs
                  /\ levels[Len(levels)] = Cardinality({q[1] : q \in pairs})

\* a call of trace_beam that calls itself has recorded a pair that was not
\* recorded, and no call removes a pair or changes the layout; a call that
\* does not call itself stopped outside the grid or on a recorded pair
CallsRecordFirst ==
    (pc16 = "tracing" /\ beam_calls # <<>> /\ pc16' = "tracing") =>
        /\ floor'.layout = floor.layout
        /\ RecordedPairs(floor) \subseteq RecordedPairs(floor')
        /\ IF Len(beam_calls') >= Len(beam_calls)
           THEN RecordedPairs(floor') # RecordedPairs(floor)
           ELSE LET walked == WhileEmpty(floor.layout, floor.dir_history,
                                         Head(beam_calls)[1], Head(beam_calls)[2])
                IN  \/ ~InGrid(floor.layout, walked.pos)
                    \/ <<walked.pos, Head(beam_calls)[2]>> \in RecordedPairs(floor)

\* C26: trace_beam terminates for every layout, start position and
\* direction: each call leaves the grid, stops at a recorded (position,
\* direction) pair, or records a new pair before it calls itself, and when
\* the trace has returned every cell the beam passes through has a non-empty
\* direction set.
C26_TraceBeamTerminates ==
    /\ []BeamIsRecorded
    /\ [][CallsRecordFirst]_vars
    /\ <>(pc16 = "traced")

\* a trace has returned on a 2 x 2 floor without empty cells on which the
\* beam comes back to a pair it passed through, with all four cells energised
C26_Witness ==
    /\ pc16 = "traced"
    /\ floor.layout.width = 2
    /\ floor.layout.height = 2
    /\ BeamLoops(floor.layout, beam_start[1])
    /\ levels = <<4>>
    /\ \E i \in DOMAIN floor.dir_history.cells :
          Cardinality(floor.dir_history.cells[i]) >= 2

(* ------------------- day16: the traces of solve_pt2 --------------------- *)
RECURSIVE TraceAll(_, _)
\* trace_beam run to its end on floor fl for the calls given
TraceAll(fl, calls) ==
    IF calls = <<>> THEN fl
    ELSE CHOOSE f \in {TraceAll(r.floor, r.calls \o Tail(calls)) :
                          r \in {TraceBeamCall(fl, Head(calls)[1], Head(calls)[2])}} : TRUE

\* the energy level of the layout when start alone is traced on it
EnergyAlone(layout, start) == EnergyLevel(TraceAll(FloorParse(layout), <<start>>))

\* the input of solve_pt2 is as parse_input made it, and the floor traced
\* has its layout
InputIsKept ==
    pc16 \notin {"parked"} =>
        /\ floor_input = FloorParse(floor_input.layout)
        /\ floor # <<>> => floor.layout = floor_input.layout
        /\ \A k \in DOMAIN levels :
              levels[k] = EnergyAlone(floor_input.layout,
                              EdgeStarts(floor_input.layout.width,
                                         floor_input.layout.height)[k])
        /\ pc16 = "done" =>
              /\ Len(levels) = 2 * floor_input.layout.width + 2 * floor_input.layout.height
              /\ \E k \in DOMAIN levels : max_level = <<levels[k]>>
              /\ \A k \in DOMAIN levels : levels[k] <= max_level[1]

\* no step changes the input, and a step that begins a trace begins it on
\* a floor of the input's layout with an empty direction history
TraceBeginsEmpty ==
    /\ pc16 # "parked" => floor_input' = floor_input
    /\ (pc16 \in {"pick", "traced"} /\ pc16' = "tracing") =>
          /\ floor' = FloorParse(floor_input.layout)
          /\ RecordedPairs(floor') = {}

\* C27: solve_pt2 traces every edge start on a copy of the floor whose
\* direction history is empty when the trace begins; no trace changes the
\* layout or the input's direction history, and each energy level is the one
\* that tracing the start alone gives.
C27_TracesAreIndependent == []InputIsKept /\ [][TraceBeginsEmpty]_vars

\* solve_pt2 returned 4 for a 2 x 2 floor on which the first start energises
\* three cells and some start only one
C27_Witness ==
    /\ pc16 = "done"
    /\ Len(levels) = 8
    /\ levels[1] = 3
    /\ \E k \in DOMAIN levels : levels[k] = 1
    /\ max_level = <<4>>

(* ------------------- day12: the cache under test threads ---------------- *)
\* the number of test threads, and the largest number of springs, of groups
\* and the largest group size of the records they are given
MaxThreads == 2
MaxThreadCalls == 3
MaxThreadSprings == 2
MaxThreadGroups == 1
MaxThreadGroupSize == 1

Threads == 1 .. MaxThreads

\* A frame is one call of possible_arrangements_with: its arguments, where
\* it stands, the value of the first call of the Unknown arm (a) and the
\* value it is about to return.  It stands at
\*   "read"   before CACHE.read()          "lookup" holding the read guard
\*   "eval"   before the match             "wait", "wait_a", "wait_b" while
\*   "write"  before CACHE.write()                  a call it made runs
\*   "insert" holding the write guard
Frame(springs, groups, in_span) ==
    [springs |-> springs, groups |-> groups, in_span |-> in_span,
     at |-> "read", a |-> 0, value |-> 0]

\* the frames of a thread after its innermost call returned v: the caller
\* goes on with the value
ReturnTo(callers, v) ==
    IF callers = <<>> THEN <<>>
    ELSE LET f == Head(callers)
         IN  CASE f.at = "wait" ->
                      <<[f EXCEPT !.value = v, !.at = "write"]>> \o Tail(callers)
               [] f.at = "wait_a" ->
                      <<Frame(<<"Operational">> \o Tail(f.springs), f.groups, f.in_span),
                        [f EXCEPT !.a = v, !.at = "wait_b"]>> \o Tail(callers)
               [] f.at = "wait_b" ->
                      <<[f EXCEPT !.value = f.a + v, !.at = "write"]>> \o Tail(callers)

\* the read guards when the guard of the lookup lives to the end of the call
ReadGuardsKept(guards, t) == guards

\* the read guard of thread t after the if let of the cache lookup: the
\* guard is a temporary of the if let and is dropped at its end
ReadGuardsAfterLookup(guards, t) == guards \ {t}

\* CACHE.read(): thread t gets a read guard when no thread holds the write
\* guard
ReadLock(t) ==
    /\ frames[t] # <<>>
    /\ Head(frames[t]).at = "read"
    /\ writer = {}
    /\ readers' = readers \cup {t}
    /\ frames' = [frames EXCEPT ![t] = <<[Head(@) EXCEPT !.at = "lookup"]>> \o Tail(@)]
    /\ UNCHANGED <<cache, record, arrangements, record_calls, returned, thread_calls, writer>>
    /\ UnchangedBut("threads")

\* get(&key) under the read guard: on a hit the call returns the cached
\* value, on a miss it goes on to the match
Lookup(t) ==
    /\ frames[t] # <<>>
    /\ Head(frames[t]).at = "lookup"
    /\ LET f   == Head(frames[t])
           key == <<f.springs, f.groups, f.in_span>>
       IN  IF key \in DOMAIN cache
           THEN /\ frames' = [frames EXCEPT ![t] = ReturnTo(Tail(@), cache[key])]
                /\ returned' = IF Tail(frames[t]) = <<>>
                               THEN [returned EXCEPT ![t] = <<cache[key]>>]
                               ELSE returned
           ELSE /\ frames' = [frames EXCEPT ![t] = <<[f EXCEPT !.at = "eval"]>> \o Tail(@)]
                /\ UNCHANGED returned
    /\ readers' = ReadGuardsAfterLookup(readers, t)
    /\ UNCHANGED <<cache, record, arrangements, record_calls, thread_calls, writer>>
    /\ UnchangedBut("threads")

\* the frames of a thread whose innermost call f evaluates its match: f has
\* its value, or waits for a call it makes
Evaluated(f, callers) ==
    LET tail         == Tail(f.springs)
        has(v)       == <<[f EXCEPT !.value = v, !.at = "write"]>> \o callers
        calls(c, at) == <<c, [f EXCEPT !.at = at]>> \o callers
    IN  IF f.springs = <<>> THEN has(EndValue(f.groups))
        ELSE IF Head(f.springs) = "Operational"
             THEN IF f.groups # <<>> /\ f.groups[1] = 0
                  THEN calls(Frame(tail, Tail(f.groups), FALSE), "wait")
                  ELSE IF f.groups # <<>> /\ f.in_span THEN has(0)
                  ELSE calls(Frame(tail, f.groups, f.in_span), "wait")
        ELSE IF Head(f.springs) = "Damaged"
             THEN IF f.groups = <<>> \/ f.groups[1] = 0 THEN has(0)
                  ELSE calls(Frame(tail, [f.groups EXCEPT ![1] = @ - 1], TRUE), "wait")
        ELSE calls(Frame(<<"Damaged">> \o tail, f.groups, f.in_span), "wait_a")

\* the match on springs.first(), up to the first call it makes
Evaluate(t) ==
    /\ frames[t] # <<>>
    /\ Head(frames[t]).at = "eval"
    /\ frames' = [frames EXCEPT ![t] = Evaluated(Head(@), Tail(@))]
    /\ UNCHANGED <<cache, record, arrangements, record_calls, returned, thread_calls, readers, writer>>
    /\ UnchangedBut("threads")

\* CACHE.write(): thread t gets the write guard when no thread holds a guard
WriteLock(t) ==
    /\ frames[t] # <<>>
    /\ Head(frames[t]).at = "write"
    /\ readers = {}
    /\ writer = {}
    /\ writer' = {t}
    /\ frames' = [frames EXCEPT ![t] = <<[Head(@) EXCEPT !.at = "insert"]>> \o Tail(@)]
    /\ UNCHANGED <<cache, record, arrangements, record_calls, returned, thread_calls, readers>>
    /\ UnchangedBut("threads")

\* insert(key, value) under the write guard, which is dropped at the end of
\* the statement; the call returns value
Insert(t) ==
    /\ frames[t] # <<>>
    /\ Head(frames[t]).at = "insert"
    /\ LET f   == Head(frames[t])
           key == <<f.springs, f.groups, f.in_span>>
       IN  /\ cache' = (key :> f.value) @@ cache
           /\ frames' = [frames EXCEPT ![t] = ReturnTo(Tail(@), f.value)]
           /\ returned' = IF Tail(frames[t]) = <<>>
                          THEN [returned EXCEPT ![t] = <<f.value>>]
                          ELSE returned
    /\ writer' = {}
    /\ UNCHANGED <<record, arrangements, record_calls, thread_calls, readers>>
    /\ UnchangedBut("threads")

\* the records given to the threads
ThreadRecords ==
    {[springs |-> sp, groups |-> gr] :
        sp \in UNION {[1 .. n -> SpringCondition] : n \in 1 .. MaxThreadSprings},
        gr \in UNION {[1 .. n -> 0 .. MaxThreadGroupSize] : n \in 1 .. MaxThreadGroups}}

\* thread t, between two calls, calls possible_arrangements on a record
CallPossibleArrangements(t) ==
    /\ frames[t] = <<>>
    /\ thread_calls < MaxThreadCalls
    /\ frames' \in {[frames EXCEPT ![t] = <<Frame(rec.springs, rec.groups, FALSE)>>] :
                      rec \in ThreadRecords}
    /\ returned' = [returned EXCEPT ![t] = <<>>]
    /\ thread_calls' = thread_calls + 1
    /\ UNCHANGED <<cache, record, arrangements, record_calls, readers, writer>>
    /\ UnchangedBut("threads")

\* the test threads have made no call; CACHE is as lazy_static made it
InitThreads ==
    /\ frames = [t \in Threads |-> <<>>]
    /\ returned = [t \in Threads |-> <<>>]
    /\ thread_calls = 0
    /\ readers = {}
    /\ writer = {}
    /\ Day12Parked
    /\ ParkedBut("threads")

NextThreads ==
    \E t \in Threads :
        \/ CallPossibleArrangements(t)
        \/ ReadLock(t) \/ Lookup(t) \/ Evaluate(t) \/ WriteLock(t) \/ Insert(t)

SpecThreads == InitThreads /\ [][NextThreads]_vars

(* ------------------------------- C28 ------------------------------------ *)
RECURSIVE ArrangementsUncached(_, _, _)
\* the evaluation of possible_arrangements_with without CACHE: the match on
\* springs.first() with every call it makes evaluated the same way
ArrangementsUncached(springs, groups, in_span) ==
    IF springs = <<>> THEN EndValue(groups)
    ELSE IF Head(springs) = "Operational"
         THEN IF groups # <<>> /\ groups[1] = 0
              THEN ArrangementsUncached(Tail(springs), Tail(groups), FALSE)
              ELSE IF groups # <<>> /\ in_span THEN 0
              ELSE ArrangementsUncached(Tail(springs), groups, in_span)
    ELSE IF Head(springs) = "Damaged"
         THEN IF groups = <<>> \/ groups[1] = 0 THEN 0
              ELSE ArrangementsUncached(Tail(springs), [groups EXCEPT ![1] = @ - 1], TRUE)
    ELSE ArrangementsUncached(<<"Damaged">> \o Tail(springs), groups, in_span)
         + ArrangementsUncached(<<"Operational">> \o Tail(springs), groups, in_span)

\* every entry of CACHE holds the value of the uncached evaluation of its key
CacheIsSound ==
    \A key \in DOMAIN cache :
        cache[key] = ArrangementsUncached(key[1], key[2], key[3])

\* a call that is about to take, or holds, the write guard holds no read
\* guard
NoReadGuardAtWrite ==
    \A t \in DOMAIN frames :
        (frames[t] # <<>> /\ Head(frames[t]).at \in {"write", "insert"})
            => t \notin readers

\* thread t is not blocked on CACHE
CanStep(t) ==
    /\ frames[t] # <<>>
    /\ Head(frames[t]).at = "read" => writer = {}
    /\ Head(frames[t]).at = "write" => readers = {} /\ writer = {}

\* while a call is left to finish, some thread is not blocked
SomeThreadRuns ==
    (\E t \in DOMAIN frames : frames[t] # <<>>) => \E t \in DOMAIN frames : CanStep(t)

\* the outermost call of a thread returns the value of the uncached
\* evaluation of its arguments
ReturnsUncached ==
    \A t \in DOMAIN frames :
        (returned'[t] # returned[t] /\ returned'[t] # <<>>) =>
            /\ Len(frames[t]) = 1
            /\ LET f == Head(frames[t])
               IN  returned'[t] = <<ArrangementsUncached(f.springs, f.groups, f.in_span)>>

\* C28: whatever the threads called before and however their calls
\* interleave, every entry of CACHE maps its key to the value the uncached
\* recursion computes for that key, every call of possible_arrangements
\* returns that value for its record, and no call holds the read guard of
\* CACHE when it acquires the write guard, so that the threads never block
\* each other for good.
C28_CacheIsSoundAndUnblocked ==
    /\ [](CacheIsSound /\ NoReadGuardAtWrite /\ SomeThreadRuns)
    /\ [][ReturnsUncached]_vars

\* thread 1 holds the read guard in the outermost call of its first call of
\* possible_arrangements and finds its key, which thread 2 has written in
\* its own first call, while thread 2 waits for the write guard
C28_Witness ==
    /\ frames # <<>>
    /\ thread_calls = 2
    /\ Len(frames[1]) = 1
    /\ Head(frames[1]).at = "lookup"
    /\ <<Head(frames[1]).springs, Head(frames[1]).groups, FALSE>> \in DOMAIN cache
    /\ 1 \in readers
    /\ frames[2] # <<>>
    /\ Head(frames[2]).at = "write"

(* ------------------------- day08: ghost paths --------------------------- *)
\* the largest number of turns of a network
MaxDirs == 2

Turn == {"Left", "Right"}

\* the labels of the nodes drawn, as the characters of Node.0
NodeLabels == {<<"1", "A">>, <<"2", "A">>, <<"1", "Z">>, <<"1", "B">>}

\* k.0.ends_with(c)
EndsWith(node, c) == node # <<>> /\ node[Len(node)] = c

\* the networks Network::parse makes of the labels: one turn or more, one node or more,
\* each with the pair of labels it leads to (which need not be nodes)
Networks(labels) ==
    {[dirs |-> d, nodes |-> n] :
        d \in UNION {[1 .. k -> Turn] : k \in 1 .. MaxDirs},
        n \in UNION {[dom -> labels \X labels] : dom \in SUBSET labels \ {{}}}}

RECURSIVE PathLengthFrom(_, _, _)
\* the while loop of path_length with the target ends_with('Z'), at position
\* after steps steps.  It returns the steps, panics on a position that is no
\* node, or never ends: a walk of as many steps as there are pairs of a node
\* and a place in dirs has been in one pair twice and goes round for ever.
PathLengthFrom(net, position, steps) ==
    IF EndsWith(position, "Z") THEN [outcome |-> "returned", steps |-> steps]
    ELSE IF position \notin DOMAIN net.nodes THEN [outcome |-> "panicked", steps |-> steps]
    ELSE IF steps >= Cardinality(DOMAIN net.nodes) * Len(net.dirs)
         THEN [outcome |-> "looping", steps |-> steps]
    ELSE LET dir  == net.dirs[(steps % Len(net.dirs)) + 1]
             pair == net.nodes[position]
         IN  PathLengthFrom(net, IF dir = "Left" THEN pair[1] ELSE pair[2], steps + 1)

\* path_length(from, |p| p.0.ends_with('Z'))
PathLength(net, from) == PathLengthFrom(net, from, 0)

RECURSIVE Gcd(_, _)
Gcd(a, b) == IF a > 0 THEN Gcd(b % a, a) ELSE b

Lcm(a, b) == (a * b) \div Gcd(a, b)

\* the keys of nodes that end with 'A'
StartPositions(net) == {k \in DOMAIN net.nodes : EndsWith(k, "A")}

\* the orders in which keys() may give the start positions
KeyOrders(keys) ==
    {order \in [1 .. Cardinality(keys) -> keys] :
        \A k \in keys : \E i \in DOMAIN order : order[i] = k}

RECURSIVE ReduceLcm(_, _, _, _)
\* map(path_length).reduce(lcm).unwrap() from the i-th start position on,
\* with acc the Option reduce holds: the map is lazy, so the first
\* path_length that panics or never ends decides
ReduceLcm(net, positions, i, acc) ==
    IF i > Len(positions)
    THEN IF acc = <<>> THEN [outcome |-> "panicked", steps |-> 0]
         ELSE [outcome |-> "returned", steps |-> acc[1]]
    ELSE LET r == PathLength(net, positions[i])
         IN  IF r.outcome # "returned" THEN r
             ELSE ReduceLcm(net, positions, i + 1,
                            IF acc = <<>> THEN <<r.steps>> ELSE <<Lcm(acc[1], r.steps)>>)

\* parse_input
ParseNetwork ==
    /\ pc08 = "parked"
    /\ network' \in {<<net>> : net \in Networks(NodeLabels)}
    /\ pc08' = "parsed"
    /\ UNCHANGED ghost_length
    /\ UnchangedBut("day08")

\* solve_pt2: ghost_path_length returns, panics or never ends
GhostPathLength ==
    /\ pc08 = "parsed"
    /\ \E positions \in KeyOrders(StartPositions(network[1])) :
       \E r \in {ReduceLcm(network[1], positions, 1, <<>>)} :
          /\ pc08' = r.outcome
          /\ ghost_length' = IF r.outcome = "returned" THEN <<r.steps>> ELSE <<>>
    /\ UNCHANGED network
    /\ UnchangedBut("day08")

InitNetwork == Day08Parked /\ ParkedBut("day08")

NextNetwork == ParseNetwork \/ GhostPathLength

SpecNetwork == InitNetwork /\ [][NextNetwork]_vars

(* ------------------------------- C29 ------------------------------------ *)
RECURSIVE PositionAfter(_, _, _, _)
\* where the ghost that is on position after steps steps is after n steps;
\* <<>> when it has left the nodes
PositionAfter(net, position, steps, n) ==
    IF steps = n THEN position
    ELSE IF position \notin DOMAIN net.nodes THEN <<>>
    ELSE LET dir  == net.dirs[(steps % Len(net.dirs)) + 1]
             pair == net.nodes[position]
         IN  PositionAfter(net, IF dir = "Left" THEN pair[1] ELSE pair[2], steps + 1, n)

\* after n steps every ghost is on a node that ends with 'Z'
AllOnZ(net, n) ==
    \A start \in StartPositions(net) : EndsWith(PositionAfter(net, start, 0, n), "Z")

\* the ghosts on nodes are together in one of this many states (a node each
\* and a place in dirs), so the first step count at which all are on 'Z'
\* nodes, if there is one, is at most this
JointStates(net) ==
    Len(net.dirs) * Cardinality(DOMAIN net.nodes) ^ Cardinality(StartPositions(net))

\* Option: the smallest positive number of steps after which all ghosts are
\* on 'Z' nodes
SmallestSimultaneous(net) ==
    LET ns == {n \in 1 .. JointStates(net) : AllOnZ(net, n)}
    IN  IF ns = {} THEN <<>> ELSE <<CHOOSE n \in ns : \A m \in ns : n <= m>>

\* every start node reaches a node that ends with 'Z'
EveryStartReachesZ(net) ==
    \A start \in StartPositions(net) : PathLength(net, start).outcome = "returned"

\* C29: for a network in which every start node reaches a node ending in
\* 'Z', the value ghost_path_length returned is the smallest positive number
\* of steps after which all ghosts are on nodes ending in 'Z' at once.
C29_SmallestSimultaneousStep ==
    (pc08 = "returned" /\ EveryStartReachesZ(network[1]))
        => ghost_length = SmallestSimultaneous(network[1])

\* the ghost from start is on a 'Z' node after exactly the multiples of the
\* length of its first path
OnZAtMultiples(net, start) ==
    LET first == PathLength(net, start).steps
    IN  \A n \in 1 .. JointStates(net) :
            EndsWith(PositionAfter(net, start, 0, n), "Z") <=> (n % first = 0)

\* what ghost_path_length returned is the smallest simultaneous step for the
\* networks in which every ghost is on a 'Z' node after exactly the
\* multiples of the length of its first path
C29_SmallestForPeriodicGhosts ==
    (/\ pc08 = "returned"
     /\ \A start \in StartPositions(network[1]) : OnZAtMultiples(network[1], start))
        => ghost_length = SmallestSimultaneous(network[1])

\* ghost_path_length has returned for two periodic ghosts whose first paths
\* take more than one step
C29_PeriodicGhostsReturned ==
    /\ pc08 = "returned"
    /\ Cardinality(StartPositions(network[1])) = 2
    /\ \A start \in StartPositions(network[1]) : OnZAtMultiples(network[1], start)
    /\ ghost_length[1] > 1

\* ghost_path_length returns a step count at which no simultaneous arrival
\* happens although the ghosts do arrive together earlier or later
C29_ReturnedIsNotSimultaneous ==
    ~(/\ pc08 = "returned"
      /\ SmallestSimultaneous(network[1]) # <<>>
      /\ ~AllOnZ(network[1], ghost_length[1]))

====
